---- MODULE Spec2Model ----
(***************************************************************************)
(* A model of the SWAPI mirror service: the ingestion fetcher, the bulk    *)
(* populator with its unit of work, and list requests reading the store.   *)
(***************************************************************************)
EXTENDS Integers, Sequences, FiniteSets, TLC

VARIABLES
    pc,         \* position of populatedb_wrapper / _populate_with_associations
    task,       \* the three fetch coroutines handed to asyncio.gather
    gathered,   \* what gather hands back to the wrapper: nothing yet, or the first exception
    data,       \* films_data, people_data, starships_data once gather returned
    films,      \* dict url -> Film model (with its characters and starships collections)
    characters, \* dict url -> Character model (with its starships collection)
    starships,  \* dict url -> Starship model
    session,    \* the request's AsyncSession: pending objects and the calls made on it
    store,      \* committed rows of the database
    raising,    \* the exception travelling up to the wrapper's except clauses
    outcome,    \* what populatedb_wrapper handed to its caller
    reader,     \* a concurrent list request on its own session
    req,        \* one call of _parse_swapi_data: path and the HTTP exchange
    res,        \* its result
    call,       \* one call of a function or handler on its own: its name and arguments
    ret         \* what that call returned or raised, and what it did on the way

vars == <<pc, task, gathered, data, films, characters, starships, session, store,
          raising, outcome, reader, req, res, call, ret>>

(***************************************************************************)
(* Bounds of the model.                                                    *)
(***************************************************************************)
\* records per fetched collection
MaxRecords == 2
\* urls listed by one record in one of its url lists
MaxRefs == 2
\* records over the three collections of one populate
MaxTotalRecords == 3
\* listed urls over all records of one populate
MaxTotalRefs == 4
\* listed urls over all records of a populate that runs next to a list request
MaxFetchedRefs == 2
\* elements of a response body
MaxItems == 3
\* list queries a concurrent list request runs (count, page)
MaxQueries == 2
\* characters of a url handed to extract_id_from_url on its own
MaxUrlLen == 4
\* fields of one mapped record that carry the sentinel "unknown"
MaxSentinels == 2
\* rows of the listed table, and the offset and limit of a list request
MaxRows == 3
MaxOffset == 4
MaxLimit == 3

(***************************************************************************)
(* Generic helpers.                                                        *)
(***************************************************************************)
Range(s) == {s[i] : i \in 1..Len(s)}

SeqsUpTo(S, n) == UNION {[1..k -> S] : k \in 0..n}

HasDuplicates(s) == \E i, j \in 1..Len(s) : i < j /\ s[i] = s[j]

(***************************************************************************)
(* URLs are character sequences; extract_id_from_url is the regular        *)
(* expression /(\d+)/?$ applied with re.search, then int().                *)
(***************************************************************************)
Digits == {"0", "1", "2"}

DigitVal(c) == CASE c = "0" -> 0 [] c = "1" -> 1 [] c = "2" -> 2

RECURSIVE IntOf(_)
IntOf(ds) == IF ds = <<>> THEN 0 ELSE 10 * IntOf(SubSeq(ds, 1, Len(ds) - 1)) + DigitVal(ds[Len(ds)])

\* `$` (no MULTILINE) matches at the very end, or just before a final newline
DollarAt(url, p) == p = Len(url) + 1 \/ (p = Len(url) /\ url[p] = "\n")

\* the matches of /(\d+)/?$ : <<i, j>> with url[i] = "/" and digits at i+1..j
IdMatches(url) ==
    {m \in (1..Len(url)) \X (1..Len(url)) :
        /\ m[1] < m[2]
        /\ url[m[1]] = "/"
        /\ \A k \in (m[1] + 1)..m[2] : url[k] \in Digits
        /\ \/ DollarAt(url, m[2] + 1)
           \/ (m[2] + 1 <= Len(url) /\ url[m[2] + 1] = "/" /\ DollarAt(url, m[2] + 2))}

HasId(url) == IdMatches(url) # {}

\* an extractor that takes the first numeric segment of the path, not the last
extract_first_numeric_segment(url) ==
    LET i == CHOOSE i \in 1..(Len(url) - 1) :
                 /\ url[i] = "/" /\ url[i + 1] \in Digits
                 /\ \A k \in 1..(i - 1) : ~(url[k] = "/" /\ url[k + 1] \in Digits)
        j == CHOOSE j \in (i + 1)..Len(url) :
                 /\ \A k \in (i + 1)..j : url[k] \in Digits
                 /\ (j = Len(url) \/ url[j + 1] \notin Digits)
    IN  IntOf(SubSeq(url, i + 1, j))

\* re.search takes the leftmost match; greedy \d+ takes the longest at that start
extract_id_from_url(url) ==
    LET i == CHOOSE i \in {m[1] : m \in IdMatches(url)} :
                 \A m \in IdMatches(url) : i <= m[1]
        j == CHOOSE j \in {m[2] : m \in {n \in IdMatches(url) : n[1] = i}} :
                 \A m \in {n \in IdMatches(url) : n[1] = i} : m[2] <= j
    IN  IntOf(SubSeq(url, i + 1, j))

U1 == <<"/", "1", "/">>
U2 == <<"/", "2">>
UX == <<"/", "x">>

\* urls a record may carry as its own url, and urls it may list
RecordUrls == {U1, U2, UX}
RefUrls == {U1, U2}

(***************************************************************************)
(* Exceptions.  A service exception has kind, message and details; a raw   *)
(* library exception is given the same shape (its str() is the message).   *)
(***************************************************************************)
NoCause == [exc |-> "", status |-> 0]
NoMessage == [text |-> "", path |-> "", cause |-> NoCause, count |-> 0]
NoDetails == [validation_errors |-> <<>>, error |-> NoMessage]
NoExc == [kind |-> "", message |-> NoMessage, details |-> NoDetails]

RawException(kind, text) ==
    [kind |-> kind, message |-> [text |-> text, path |-> "", cause |-> NoCause, count |-> 0],
     details |-> NoDetails]

ExternalServiceException(text, path, cause) ==
    [kind |-> "ExternalServiceException",
     message |-> [text |-> text, path |-> path, cause |-> cause, count |-> 0],
     details |-> NoDetails]

DatabaseException(text, cause) ==
    [kind |-> "DatabaseException",
     message |-> [text |-> text, path |-> "", cause |-> cause, count |-> 0],
     details |-> NoDetails]

InternalServerException(text, error) ==
    [kind |-> "InternalServerException",
     message |-> [text |-> text, path |-> "", cause |-> NoCause, count |-> 0],
     details |-> [validation_errors |-> <<>>, error |-> error]]

\* ".".join(str(loc) for loc in error["loc"])
RECURSIVE JoinDot(_)
JoinDot(loc) ==
    IF Len(loc) <= 1 THEN loc
    ELSE <<Head(loc), ".">> \o JoinDot(Tail(loc))

InputValidationException(validation_error) ==
    [kind |-> "InputValidationException",
     message |-> [text |-> "Validation failed for {count} field(s)", path |-> "",
                  cause |-> NoCause, count |-> Len(validation_error)],
     details |-> [validation_errors |->
                      [i \in 1..Len(validation_error) |->
                          [field |-> JoinDot(validation_error[i].loc),
                           message |-> validation_error[i].msg,
                           type |-> validation_error[i].type,
                           input |-> validation_error[i].input]],
                  error |-> NoMessage]]

(***************************************************************************)
(* Records of the three input schemas (the fields the populator reads).    *)
(***************************************************************************)
UrlLists == SeqsUpTo(RefUrls, MaxRefs)

FilmInputSchema == [url : RecordUrls, characters : UrlLists, starships : UrlLists]
CharacterInputSchema == [url : RecordUrls, starships : UrlLists]
StarshipInputSchema == [url : RecordUrls]

Paths == {"films", "people", "starships"}

SchemaOf(path) ==
    CASE path = "films" -> FilmInputSchema
      [] path = "people" -> CharacterInputSchema
      [] path = "starships" -> StarshipInputSchema

(***************************************************************************)
(* The HTTP exchange of one fetch.  An element of a decoded body is a JSON *)
(* object or not; an object carries the errors pydantic reports for it     *)
(* (none when it validates) and the record it validates to.                *)
(***************************************************************************)
MissingUrl ==
    <<[loc |-> <<"url">>, msg |-> "Field required", type |-> "missing", input |-> "{}"]>>

BadCreatedAndStarship ==
    <<[loc |-> <<"created">>, msg |-> "Input should be a valid datetime",
       type |-> "datetime_parsing", input |-> "yesterday"],
      [loc |-> <<"starships", "0">>, msg |-> "Input should be a valid string",
       type |-> "string_type", input |-> "7"]>>

NoRecord == [url |-> <<>>]

ValidItem(rec) == [obj |-> TRUE, errors |-> <<>>, rec |-> rec]
InvalidItem(errors) == [obj |-> TRUE, errors |-> errors, rec |-> NoRecord]
NonObjectItem == [obj |-> FALSE, errors |-> <<>>, rec |-> NoRecord]

Body(kind, items) == [kind |-> kind, items |-> items]
EmptyBody == Body("json", <<>>)

Exchange(fault, status, body) == [fault |-> fault, status |-> status, body |-> body]

\* aiohttp's ClientResponse.raise_for_status raises ClientResponseError for a status of 400 and above
raise_for_status(status) == status >= 400

NoResult == [ok |-> FALSE, value |-> <<>>, exc |-> NoExc]
Returned(value) == [ok |-> TRUE, value |-> value, exc |-> NoExc]
Raised(exc) == [ok |-> FALSE, value |-> <<>>, exc |-> exc]

\* the first element the list comprehension cannot turn into a record, 0 if none
FirstRejected(items) ==
    IF \E i \in 1..Len(items) : ~items[i].obj \/ items[i].errors # <<>>
    THEN CHOOSE i \in 1..Len(items) :
             /\ ~items[i].obj \/ items[i].errors # <<>>
             /\ \A k \in 1..(i - 1) : items[k].obj /\ items[k].errors = <<>>
    ELSE 0

FailedToFetch(path, cause) ==
    ExternalServiceException("Failed to fetch {path} from SWAPI: {e}", path, cause)

\* the decode failure reported by the clause for transport failures
InvalidJsonAsFetchFailure(path, cause) ==
    ExternalServiceException("Failed to fetch {path} from SWAPI: {e}", path, cause)

InvalidJson(path, cause) ==
    ExternalServiceException("Invalid JSON response from SWAPI {path}: {e}", path, cause)

\* a fetcher without the closing `except Exception` clause: the exception goes out as it is
UnexpectedErrorUncaught(path, cause) == RawException(cause.exc, "")

UnexpectedError(path, cause) ==
    ExternalServiceException("Unexpected error parsing {path}: {e}", path, cause)

\* the non-200 branch: raise_for_status(), then return []
NonOkStatus(path, status) ==
    IF raise_for_status(status)
    THEN Raised(FailedToFetch(path, [exc |-> "ClientResponseError", status |-> status]))
    ELSE Returned(<<>>)

\* a 200 branch that skips the elements that do not validate
OkStatusSkippingInvalid(path, body) ==
    CASE body.kind = "truncated" ->
             Raised(FailedToFetch(path, [exc |-> "ClientPayloadError", status |-> 0]))
      [] body.kind = "garbled" ->
             Raised(InvalidJson(path, [exc |-> "JSONDecodeError", status |-> 0]))
      [] body.kind = "notalist" ->
             Raised(UnexpectedError(path, [exc |-> "TypeError", status |-> 0]))
      [] body.kind = "json" ->
             LET valid == SelectSeq(body.items, LAMBDA it : it.obj /\ it.errors = <<>>)
             IN  Returned([k \in 1..Len(valid) |-> valid[k].rec])

\* the 200 branch: read, orjson.loads, one schema object per element
OkStatus(path, body) ==
    CASE body.kind = "truncated" ->
             Raised(FailedToFetch(path, [exc |-> "ClientPayloadError", status |-> 0]))
      [] body.kind = "garbled" ->
             Raised(InvalidJson(path, [exc |-> "JSONDecodeError", status |-> 0]))
      [] body.kind = "notalist" ->
             Raised(UnexpectedError(path, [exc |-> "TypeError", status |-> 0]))
      [] body.kind = "json" ->
             LET i == FirstRejected(body.items)
             IN  IF i = 0
                 THEN Returned([k \in 1..Len(body.items) |-> body.items[k].rec])
                 ELSE IF ~body.items[i].obj
                 THEN Raised(UnexpectedError(path, [exc |-> "TypeError", status |-> 0]))
                 ELSE Raised(InputValidationException(body.items[i].errors))

_parse_swapi_data(path, exchange) ==
    CASE exchange.fault = "ClientConnectorError" ->
             Raised(FailedToFetch(path, [exc |-> "ClientConnectorError", status |-> 0]))
      [] exchange.fault = "TimeoutError" ->
             Raised(UnexpectedError(path, [exc |-> "TimeoutError", status |-> 0]))
      [] exchange.fault = "" ->
             IF exchange.status = 200
             THEN OkStatus(path, exchange.body)
             ELSE NonOkStatus(path, exchange.status)

(***************************************************************************)
(* The models built by the map phase, the session and the store.           *)
(***************************************************************************)
EmptyDict == [u \in {} |-> NoRecord]

Film(url) == [url |-> url, id |-> extract_id_from_url(url), characters |-> <<>>, starships |-> <<>>]
Character(url) == [url |-> url, id |-> extract_id_from_url(url), starships |-> <<>>]
Starship(url) == [url |-> url, id |-> extract_id_from_url(url)]

NoData == [films |-> <<>>, people |-> <<>>, starships |-> <<>>]

NewSession == [new |-> {}, calls |-> <<>>]

EmptyStore ==
    [films |-> {}, characters |-> {}, starships |-> {},
     character_films |-> {}, character_starships |-> {}, film_starships |-> {}]

\* a value of a record's field: its Python type, its content, and for a datetime whether it is aware
Value(type, v, tz) == [type |-> type, v |-> v, tz |-> tz]

\* the field transformers: datetime.strptime(s, "%Y-%m-%d").date(), and
\* dt.replace(tzinfo=None) if dt.tzinfo else dt
Transformed(transformer, value) ==
    CASE transformer = "strptime" ->
           IF value.type # "str"
           THEN [st |-> "raised", exc |-> RawException("TypeError", "strptime() argument 1 must be str")]
           ELSE IF value.v = "1977-05-25"
           THEN [st |-> "returned", value |-> Value("date", value.v, FALSE)]
           ELSE [st |-> "raised", exc |-> RawException("ValueError", "time data does not match format")]
      [] transformer = "naive" ->
           IF value.type # "datetime"
           THEN [st |-> "raised", exc |-> RawException("AttributeError", "no attribute tzinfo")]
           ELSE [st |-> "returned", value |-> Value("datetime", value.v, FALSE)]

\* the exception the map loops raise on this record, NoExc if none: the record
\* is mapped first, where a film's release_date goes through strptime (a
\* record written without release_date has a well-formed one), then the id
\* is extracted from its url
RecordFailure(rec) ==
    IF "release_date" \in DOMAIN rec
          /\ Transformed("strptime", Value("str", rec.release_date, FALSE)).st = "raised"
    THEN Transformed("strptime", Value("str", rec.release_date, FALSE)).exc
    ELSE IF ~HasId(rec.url)
    THEN RawException("ValueError", "Could not extract ID from URL: {url}")
    ELSE NoExc

\* the first record the loop fails on, 0 if none
FirstFailing(records) ==
    IF \E i \in 1..Len(records) : RecordFailure(records[i]) # NoExc
    THEN CHOOSE i \in 1..Len(records) :
             /\ RecordFailure(records[i]) # NoExc
             /\ \A k \in 1..(i - 1) : RecordFailure(records[k]) = NoExc
    ELSE 0

MapFails(d) ==
    \/ FirstFailing(d.films) # 0
    \/ FirstFailing(d.people) # 0
    \/ FirstFailing(d.starships) # 0

\* what the three loops raise: films first, then people, then starships
MapFailure(d) ==
    IF FirstFailing(d.films) # 0 THEN RecordFailure(d.films[FirstFailing(d.films)])
    ELSE IF FirstFailing(d.people) # 0 THEN RecordFailure(d.people[FirstFailing(d.people)])
    ELSE RecordFailure(d.starships[FirstFailing(d.starships)])

\* dict[record.url] = model, for every record in order
MapFilms(records) == [u \in {records[i].url : i \in 1..Len(records)} |-> Film(u)]
MapCharacters(records) == [u \in {records[i].url : i \in 1..Len(records)} |-> Character(u)]
MapStarships(records) == [u \in {records[i].url : i \in 1..Len(records)} |-> Starship(u)]

\* self.db.add(model) for every value of the three dicts
StagedKeys(fs, cs, ss) ==
    {<<"film", u>> : u \in DOMAIN fs} \cup {<<"character", u>> : u \in DOMAIN cs}
        \cup {<<"starship", u>> : u \in DOMAIN ss}

RECURSIVE Repeat(_, _)
Repeat(x, n) == IF n = 0 THEN <<>> ELSE <<x>> \o Repeat(x, n - 1)

\* target = dict.get(url); if target: collection.append(target)
RECURSIVE AppendResolved(_, _, _)
AppendResolved(collection, urls, dict) ==
    IF urls = <<>> THEN collection
    ELSE AppendResolved(
             IF Head(urls) \in DOMAIN dict THEN Append(collection, Head(urls)) ELSE collection,
             Tail(urls), dict)

\* the append without the membership test
AppendResolvedAgain(collection, urls, dict) == AppendResolved(collection, urls, dict)

\* if starship and starship not in character.starships: character.starships.append(starship)
RECURSIVE AppendResolvedOnce(_, _, _)
AppendResolvedOnce(collection, urls, dict) ==
    IF urls = <<>> THEN collection
    ELSE AppendResolvedOnce(
             IF Head(urls) \in DOMAIN dict /\ Head(urls) \notin Range(collection)
             THEN Append(collection, Head(urls)) ELSE collection,
             Tail(urls), dict)

\* the film loop of the link phase, over the film records in order
RECURSIVE LinkFilms(_, _, _, _)
LinkFilms(fs, records, cs, ss) ==
    IF records = <<>> THEN fs
    ELSE LET r == Head(records)
             f == fs[r.url]
             g == [f EXCEPT !.characters = AppendResolved(f.characters, r.characters, cs),
                            !.starships = AppendResolved(f.starships, r.starships, ss)]
         IN  LinkFilms([fs EXCEPT ![r.url] = g], Tail(records), cs, ss)

\* a link phase without the character loop
LinkCharactersSkipped(cs, records, ss) == cs

\* the character loop of the link phase, over the character records in order
RECURSIVE LinkCharacters(_, _, _)
LinkCharacters(cs, records, ss) ==
    IF records = <<>> THEN cs
    ELSE LET r == Head(records)
             c == cs[r.url]
             d == [c EXCEPT !.starships = AppendResolvedOnce(c.starships, r.starships, ss)]
         IN  LinkCharacters([cs EXCEPT ![r.url] = d], Tail(records), ss)

(***************************************************************************)
(* What a flush of the pending objects writes, and when it is refused.     *)
(***************************************************************************)
\* save-update cascade: an object held by a collection of a pending object is pending too
Cascade(new, fs, cs) ==
    new \cup {<<"character", x>> : x \in UNION {Range(fs[k[2]].characters) :
                                        k \in {n \in new : n[1] = "film"}}}
        \cup {<<"starship", x>> : x \in UNION {Range(fs[k[2]].starships) :
                                        k \in {n \in new : n[1] = "film"}}}
        \cup {<<"starship", x>> : x \in UNION {Range(cs[k[2]].starships) :
                                        k \in {n \in new : n[1] = "character"}}}

Pending(new, fs, cs) == Cascade(Cascade(new, fs, cs), fs, cs)

\* the part of a dict that is pending in the session
Restrict(dict, kind, pending) == [u \in {v \in DOMAIN dict : <<kind, v>> \in pending} |-> dict[u]]

EntityRows(dict) == {[id |-> dict[u].id, url |-> u] : u \in DOMAIN dict}

\* one join-table row per element of a collection: <<character_id, film_id>>
CharacterFilmRows(fs, cs) ==
    UNION {{<<cs[fs[u].characters[i]].id, fs[u].id>> : i \in 1..Len(fs[u].characters)} :
              u \in DOMAIN fs}

\* <<film_id, starship_id>>
FilmStarshipRows(fs, ss) ==
    UNION {{<<fs[u].id, ss[fs[u].starships[i]].id>> : i \in 1..Len(fs[u].starships)} :
              u \in DOMAIN fs}

\* <<character_id, starship_id>>
CharacterStarshipRows(cs, ss) ==
    UNION {{<<cs[u].id, ss[cs[u].starships[i]].id>> : i \in 1..Len(cs[u].starships)} :
              u \in DOMAIN cs}

\* constraints checked among the rows being inserted only
EntityConflictAmongNew(dict, table) ==
    \E u, v \in DOMAIN dict : u # v /\ dict[u].id = dict[v].id

\* primary key (id) and unique (url) constraints of an entity table
EntityConflict(dict, table) ==
    \/ \E u, v \in DOMAIN dict : u # v /\ dict[u].id = dict[v].id
    \/ \E u \in DOMAIN dict, row \in table : row.id = dict[u].id \/ row.url = u

\* composite primary key of a join table: a collection holding an element twice inserts a row twice
JoinConflict(fs, cs) ==
    \/ \E u \in DOMAIN fs : HasDuplicates(fs[u].characters) \/ HasDuplicates(fs[u].starships)
    \/ \E u \in DOMAIN cs : HasDuplicates(cs[u].starships)

FlushRefused(fs, cs, ss, st) ==
    \/ EntityConflict(fs, st.films)
    \/ EntityConflict(cs, st.characters)
    \/ EntityConflict(ss, st.starships)
    \/ JoinConflict(fs, cs)

\* a commit issued before the link phase: entity rows only
FlushedBeforeLink(fs, cs, ss, st) ==
    [films |-> st.films \cup EntityRows(fs),
     characters |-> st.characters \cup EntityRows(cs),
     starships |-> st.starships \cup EntityRows(ss),
     character_films |-> st.character_films,
     character_starships |-> st.character_starships,
     film_starships |-> st.film_starships]

\* the store after the transaction writing the given pending models commits
Flushed(fs, cs, ss, st) ==
    [films |-> st.films \cup EntityRows(fs),
     characters |-> st.characters \cup EntityRows(cs),
     starships |-> st.starships \cup EntityRows(ss),
     character_films |-> st.character_films \cup CharacterFilmRows(fs, cs),
     character_starships |-> st.character_starships \cup CharacterStarshipRows(cs, ss),
     film_starships |-> st.film_starships \cup FilmStarshipRows(fs, ss)]

\* a repository-style create: add, then commit at once
StoreAfterAddCommitting(st, fs, cs, ss) == Flushed(fs, cs, ss, st)

\* self.db.add(model) only registers the model with the session (autocommit=False): nothing is written
StoreAfterAdd(st, fs, cs, ss) == st

(***************************************************************************)
(* Session calls.  Each returns the session after the call.                *)
(***************************************************************************)
\* self.db.add(model), once per key
SessionAddAll(s, keys) ==
    [new |-> s.new \cup keys, calls |-> s.calls \o Repeat("add", Cardinality(keys))]

\* await self.db.commit() that succeeded: the pending objects are persistent now
SessionCommitted(s) == [new |-> {}, calls |-> Append(s.calls, "commit")]

\* await self.db.commit() that raised: the transaction is still open
SessionCommitRaised(s) == [new |-> s.new, calls |-> Append(s.calls, "commit")]

\* await self.db.rollback(): pending objects are expunged
SessionRollback(s) == [new |-> {}, calls |-> Append(s.calls, "rollback")]

Count(calls, what) == Cardinality({i \in 1..Len(calls) : calls[i] = what})

(***************************************************************************)
(* The exchanges the fetches of a populate may meet, and the data a        *)
(* populate may be handed.                                                 *)
(***************************************************************************)
RefsOf(path, rec) ==
    CASE path = "films" -> Len(rec.characters) + Len(rec.starships)
      [] path = "people" -> Len(rec.starships)
      [] path = "starships" -> 0

RECURSIVE RefsIn(_, _)
RefsIn(path, records) ==
    IF records = <<>> THEN 0 ELSE RefsOf(path, Head(records)) + RefsIn(path, Tail(records))

\* record lists of a path with exactly n records listing exactly r urls in all
ListsOfSize == 
    [path \in Paths |->
        [n \in 0..MaxRecords |->
            [r \in 0..MaxTotalRefs |->
                {l \in [1..n -> SchemaOf(path)] : RefsIn(path, l) = r}]]]

ListsWithin(path, n, r) ==
    UNION {ListsOfSize[path][k][q] : k \in 0..(IF n < MaxRecords THEN n ELSE MaxRecords),
                                     q \in 0..(IF r < MaxTotalRefs THEN r ELSE MaxTotalRefs)}

ItemsOf(records) == [i \in 1..Len(records) |-> ValidItem(records[i])]

\* records and listed urls already returned by the fetches that are done
FetchedRecords(t) ==
    Len(t["films"].result.value) + Len(t["people"].result.value)
        + Len(t["starships"].result.value)

FetchedRefs(t) ==
    RefsIn("films", t["films"].result.value) + RefsIn("people", t["people"].result.value)
        + RefsIn("starships", t["starships"].result.value)

\* what the source may answer to one fetch of a populate
PopulateExchanges(path, n, r) ==
    {Exchange("ClientConnectorError", 0, EmptyBody),
     Exchange("", 500, EmptyBody),
     Exchange("", 204, EmptyBody),
     Exchange("", 200, Body("garbled", <<>>)),
     Exchange("", 200, Body("json", <<InvalidItem(MissingUrl)>>))}
        \cup {Exchange("", 200, Body("json", ItemsOf(l))) : l \in ListsWithin(path, n, r)}

\* what one call of _parse_swapi_data may meet
Statuses == {200, 201, 204, 304, 400, 404, 500, 503}

SampleRecords(path) ==
    CASE path = "films" -> {[url |-> U1, characters |-> <<U1>>, starships |-> <<>>],
                            [url |-> U2, characters |-> <<>>, starships |-> <<U2>>]}
      [] path = "people" -> {[url |-> U1, starships |-> <<U1>>], [url |-> U2, starships |-> <<>>]}
      [] path = "starships" -> {[url |-> U1], [url |-> U2]}

FetchItems(path) ==
    {ValidItem(rec) : rec \in SampleRecords(path)}
        \cup {InvalidItem(MissingUrl), InvalidItem(BadCreatedAndStarship), NonObjectItem}

FetchExchanges(path) ==
    {Exchange("ClientConnectorError", 0, EmptyBody), Exchange("TimeoutError", 0, EmptyBody)}
        \cup {Exchange("", st, b) :
                 st \in Statuses,
                 b \in {Body("truncated", <<>>), Body("garbled", <<>>), Body("notalist", <<>>)}
                           \cup {Body("json", items) :
                                    items \in SeqsUpTo(FetchItems(path), MaxItems)}}

NoRequest == [path |-> "", exchange |-> Exchange("", 0, EmptyBody)]

NoCall == [fn |-> ""]
NoReturn == [st |-> "none"]

(***************************************************************************)
(* State of the service before any request.                                *)
(***************************************************************************)
IdleTask == [st |-> "idle", result |-> NoResult]

NoOutcome == [state |-> "none", exc |-> NoExc]

PopulateIdle ==
    /\ pc = "idle"
    /\ task = [p \in Paths |-> IdleTask]
    /\ gathered = NoExc
    /\ data = NoData
    /\ films = EmptyDict
    /\ characters = EmptyDict
    /\ starships = EmptyDict
    /\ session = NewSession
    /\ store = EmptyStore
    /\ raising = NoExc
    /\ outcome = NoOutcome

Init ==
    /\ PopulateIdle
    /\ reader = <<>>
    /\ req = NoRequest
    /\ res = NoResult
    /\ call = NoCall
    /\ ret = NoReturn

populateVars == <<pc, task, gathered, data, films, characters, starships, session, store,
                  raising, outcome>>

(***************************************************************************)
(* populatedb_wrapper and _populate_with_associations.                     *)
(***************************************************************************)
\* asyncio.gather(...) is awaited: the three fetches start
StartPopulate ==
    /\ pc = "idle"
    /\ pc' = "gather"
    /\ task' = [p \in Paths |-> [st |-> "running", result |-> NoResult]]
    /\ UNCHANGED <<gathered, data, films, characters, starships, session, store,
                   raising, outcome, reader, req, res, call, ret>>

\* one fetch coroutine runs to its end; gather keeps the first exception
FetchDone(path) ==
    /\ task[path].st = "running"
    /\ \E x \in PopulateExchanges(path, MaxTotalRecords - FetchedRecords(task),
                                  MaxFetchedRefs - FetchedRefs(task)) :
           LET r == _parse_swapi_data(path, x)
           IN  /\ task' = [task EXCEPT ![path] = [st |-> "done", result |-> r]]
               /\ gathered' = IF ~r.ok /\ gathered = NoExc THEN r.exc ELSE gathered
    /\ UNCHANGED <<pc, data, films, characters, starships, session, store,
                   raising, outcome, reader, req, res, call, ret>>

\* gather raises the first exception into the wrapper's try block
GatherRaises ==
    /\ pc = "gather"
    /\ gathered # NoExc
    /\ raising' = gathered
    /\ pc' = "except"
    /\ UNCHANGED <<task, gathered, data, films, characters, starships, session, store,
                   outcome, reader, req, res, call, ret>>

\* a join that waits for the three fetches and takes a failed one for an empty list
GatherReturnsDespiteFailure ==
    /\ pc = "gather"
    /\ \A p \in Paths : task[p].st = "done"
    /\ data' = [films |-> task["films"].result.value,
                people |-> task["people"].result.value,
                starships |-> task["starships"].result.value]
    /\ pc' = "map"
    /\ UNCHANGED <<task, gathered, films, characters, starships, session, store,
                   raising, outcome, reader, req, res, call, ret>>

\* gather returns the three lists once every fetch returned one
GatherReturns ==
    /\ pc = "gather"
    /\ \A p \in Paths : task[p].st = "done" /\ task[p].result.ok
    /\ data' = [films |-> task["films"].result.value,
                people |-> task["people"].result.value,
                starships |-> task["starships"].result.value]
    /\ pc' = "map"
    /\ UNCHANGED <<task, gathered, films, characters, starships, session, store,
                   raising, outcome, reader, req, res, call, ret>>

\* loops that add each model to the session as soon as it is built
MapPhaseAddingEachModel ==
    /\ pc = "map"
    /\ IF MapFails(data)
       THEN /\ raising' = MapFailure(data)
            /\ pc' = "except"
            /\ session' = SessionAddAll(session,
                               {<<"film", data.films[i].url>> : i \in 1..(FirstFailing(data.films) - 1)})
            /\ UNCHANGED <<films, characters, starships>>
       ELSE /\ films' = MapFilms(data.films)
            /\ characters' = MapCharacters(data.people)
            /\ starships' = MapStarships(data.starships)
            /\ pc' = "stage"
            /\ UNCHANGED <<raising, session>>
    /\ UNCHANGED <<task, gathered, data, store, outcome, reader, req, res, call, ret>>

\* the three loops building the models and the url dicts
MapPhase ==
    /\ pc = "map"
    /\ IF MapFails(data)
       THEN /\ raising' = MapFailure(data)
            /\ pc' = "except"
            /\ UNCHANGED <<films, characters, starships>>
       ELSE /\ films' = MapFilms(data.films)
            /\ characters' = MapCharacters(data.people)
            /\ starships' = MapStarships(data.starships)
            /\ pc' = "stage"
            /\ UNCHANGED raising
    /\ UNCHANGED <<task, gathered, data, session, store, outcome, reader, req, res, call, ret>>

\* the three loops adding every model to the session
StagePhase ==
    /\ pc = "stage"
    /\ session' = SessionAddAll(session, StagedKeys(films, characters, starships))
    /\ store' = StoreAfterAdd(store, films, characters, starships)
    /\ pc' = "link"
    /\ UNCHANGED <<task, gathered, data, films, characters, starships,
                   raising, outcome, reader, req, res, call, ret>>

\* the two loops establishing the associations
LinkPhase ==
    /\ pc = "link"
    /\ films' = LinkFilms(films, data.films, characters, starships)
    /\ characters' = LinkCharacters(characters, data.people, starships)
    /\ pc' = "commit"
    /\ UNCHANGED <<task, gathered, data, starships, session, store,
                   raising, outcome, reader, req, res, call, ret>>

\* await self.db.commit(): the flush is accepted and the transaction commits ...
CommitSucceeds ==
    /\ pc = "commit"
    /\ LET pending == Pending(session.new, films, characters)
           fs == Restrict(films, "film", pending)
           cs == Restrict(characters, "character", pending)
           ss == Restrict(starships, "starship", pending)
       IN  /\ ~FlushRefused(fs, cs, ss, store)
           /\ store' = Flushed(fs, cs, ss, store)
    /\ session' = SessionCommitted(session)
    /\ pc' = "return"
    /\ UNCHANGED <<task, gathered, data, films, characters, starships,
                   raising, outcome, reader, req, res, call, ret>>

\* ... or raises SQLAlchemyError: a constraint is violated, or the connection is lost
CommitRaises ==
    /\ pc = "commit"
    /\ session' = SessionCommitRaised(session)
    /\ \E text \in {"IntegrityError", "OperationalError"} :
           /\ text = "IntegrityError" =>
                  LET pending == Pending(session.new, films, characters)
                  IN  FlushRefused(Restrict(films, "film", pending),
                                   Restrict(characters, "character", pending),
                                   Restrict(starships, "starship", pending), store)
           /\ raising' = RawException("SQLAlchemyError", text)
    /\ pc' = "commit_failed"
    /\ UNCHANGED <<task, gathered, data, films, characters, starships, store,
                   outcome, reader, req, res, call, ret>>

\* except SQLAlchemyError: rollback, raise DatabaseException
CommitFailed ==
    /\ pc = "commit_failed"
    /\ session' = SessionRollback(session)
    /\ raising' = DatabaseException("Failed to commit database transaction: {e}",
                                    [exc |-> raising.message.text, status |-> 0])
    /\ pc' = "except"
    /\ UNCHANGED <<task, gathered, data, films, characters, starships, store,
                   outcome, reader, req, res, call, ret>>

KnownKinds == {"InputValidationException", "ExternalServiceException", "DatabaseException"}

\* a wrapper with the catch-all clause only
ReraisedAlwaysWrapped(e) ==
    InternalServerException("An unexpected error occurred during database population",
                            e.message)

\* what the wrapper's except clauses raise for the exception e they caught
Reraised(e) ==
    IF e.kind \in KnownKinds
    THEN e
    ELSE InternalServerException("An unexpected error occurred during database population",
                                 e.message)

\* the wrapper's except clauses: rollback, then raise
HandleException ==
    /\ pc = "except"
    /\ session' = SessionRollback(session)
    /\ outcome' = [state |-> "raised", exc |-> Reraised(raising)]
    /\ pc' = "done"
    /\ UNCHANGED <<task, gathered, data, films, characters, starships, store,
                   raising, reader, req, res, call, ret>>

\* return PopulateDBResponse()
ReturnResponse ==
    /\ pc = "return"
    /\ outcome' = [state |-> "returned", exc |-> NoExc]
    /\ pc' = "done"
    /\ UNCHANGED <<task, gathered, data, films, characters, starships, session, store,
                   raising, reader, req, res, call, ret>>

(***************************************************************************)
(* A list request on its own session: the count query, then the page       *)
(* fetch, each reading what is committed when it runs.                     *)
(***************************************************************************)
ListQuery ==
    /\ Len(reader) < MaxQueries
    /\ reader' = Append(reader, store)
    /\ UNCHANGED <<populateVars, req, res, call, ret>>

Next ==
    \/ StartPopulate
    \/ \E path \in Paths : FetchDone(path)
    \/ GatherRaises
    \/ GatherReturns
    \/ MapPhase
    \/ StagePhase
    \/ LinkPhase
    \/ CommitSucceeds
    \/ CommitRaises
    \/ CommitFailed
    \/ HandleException
    \/ ReturnResponse
    \/ ListQuery

Spec == Init /\ [][Next]_vars

(***************************************************************************)
(* The populator handed three fetched collections, next to no other        *)
(* request: the state when gather has just returned them.                  *)
(***************************************************************************)
DoneTask(value) == [st |-> "done", result |-> Returned(value)]

InitPopulate ==
    /\ \E s \in ListsWithin("starships", MaxTotalRecords, 0) :
       \E p \in ListsWithin("people", MaxTotalRecords - Len(s), MaxTotalRefs) :
       \E f \in ListsWithin("films", MaxTotalRecords - Len(s) - Len(p),
                            MaxTotalRefs - RefsIn("people", p)) :
           /\ data = [films |-> f, people |-> p, starships |-> s]
           /\ task = [path \in Paths |->
                         CASE path = "films" -> DoneTask(f)
                           [] path = "people" -> DoneTask(p)
                           [] path = "starships" -> DoneTask(s)]
    /\ pc = "map"
    /\ gathered = NoExc
    /\ films = EmptyDict
    /\ characters = EmptyDict
    /\ starships = EmptyDict
    /\ session = NewSession
    /\ store = EmptyStore
    /\ raising = NoExc
    /\ outcome = NoOutcome
    /\ reader = <<>>
    /\ req = NoRequest
    /\ res = NoResult
    /\ call = NoCall
    /\ ret = NoReturn

NextPopulate ==
    \/ MapPhase
    \/ StagePhase
    \/ LinkPhase
    \/ CommitSucceeds
    \/ CommitRaises
    \/ CommitFailed
    \/ HandleException
    \/ ReturnResponse

SpecPopulate == InitPopulate /\ [][NextPopulate]_vars

(***************************************************************************)
(* One call of _parse_swapi_data on its own.                               *)
(***************************************************************************)
InitFetch ==
    /\ PopulateIdle
    /\ reader = <<>>
    /\ \E path \in Paths : \E x \in FetchExchanges(path) :
           req = [path |-> path, exchange |-> x]
    /\ res = NoResult
    /\ call = NoCall
    /\ ret = NoReturn

ParseSwapiData ==
    /\ req # NoRequest
    /\ res = NoResult
    /\ res' = _parse_swapi_data(req.path, req.exchange)
    /\ UNCHANGED <<populateVars, reader, req, call, ret>>

NextFetch == ParseSwapiData

SpecFetch == InitFetch /\ [][NextFetch]_vars

(***************************************************************************)
(* The map and stage loops on records that carry no references, their     *)
(* urls drawn from more forms: two spellings of one id, an earlier numeric *)
(* segment, a final newline.                                               *)
(***************************************************************************)
IdUrls == RecordUrls \cup {<<"/", "1">>, <<"/", "1", "/", "2">>, <<"/", "2", "\n">>}

Unreferencing(path, urls) ==
    [i \in 1..Len(urls) |->
        CASE path = "films" -> [url |-> urls[i], characters |-> <<>>, starships |-> <<>>]
          [] path = "people" -> [url |-> urls[i], starships |-> <<>>]
          [] path = "starships" -> [url |-> urls[i]]]

InitIds ==
    /\ \E f, p, s \in SeqsUpTo(IdUrls, MaxRecords) :
           /\ Len(f) + Len(p) + Len(s) <= MaxTotalRecords
           /\ data = [films |-> Unreferencing("films", f),
                      people |-> Unreferencing("people", p),
                      starships |-> Unreferencing("starships", s)]
           /\ task = [path \in Paths |-> DoneTask(data[path])]
    /\ pc = "map"
    /\ gathered = NoExc
    /\ films = EmptyDict
    /\ characters = EmptyDict
    /\ starships = EmptyDict
    /\ session = NewSession
    /\ store = EmptyStore
    /\ raising = NoExc
    /\ outcome = NoOutcome
    /\ reader = <<>>
    /\ req = NoRequest
    /\ res = NoResult
    /\ call = NoCall
    /\ ret = NoReturn

SpecIds == InitIds /\ [][MapPhase \/ StagePhase \/ HandleException]_vars

(***************************************************************************)
(* One call of extract_id_from_url on its own, on any short string.        *)
(***************************************************************************)
UrlChars == {"/", "1", "2", "x", "\n"}

Called(fn) == call.fn = fn /\ ret.st = "none"

ReturnedValue(value) == [st |-> "returned", value |-> value]
RaisedException(exc) == [st |-> "raised", exc |-> exc]

InitExtract ==
    /\ PopulateIdle
    /\ reader = <<>>
    /\ req = NoRequest
    /\ res = NoResult
    /\ \E url \in SeqsUpTo(UrlChars, MaxUrlLen) :
           call = [fn |-> "extract_id_from_url", url |-> url]
    /\ ret = NoReturn

ExtractIdFromUrl ==
    /\ Called("extract_id_from_url")
    /\ ret' = IF HasId(call.url)
              THEN ReturnedValue(extract_id_from_url(call.url))
              ELSE RaisedException(RawException("ValueError", "Could not extract ID from URL: {url}"))
    /\ UNCHANGED <<populateVars, reader, req, res, call>>

SpecExtract == InitExtract /\ [][ExtractIdFromUrl]_vars

(***************************************************************************)
(* _map_input_to_model and its three callers.  A field value is a typed    *)
(* value; a record is model_dump(): field name -> value, in schema order.  *)
(***************************************************************************)
None == Value("none", "", FALSE)

\* per kind: the input schema's fields in order and those typed str, the
\* model's table columns, and the arguments its mapper passes on
Mapper(kind) ==
    CASE kind = "film" ->
           [fields |-> <<"title", "episode_id", "opening_crawl", "director", "producer",
                         "release_date", "characters", "planets", "starships", "vehicles",
                         "species", "created", "edited", "url">>,
            strs |-> {"title", "opening_crawl", "director", "producer", "release_date", "url"},
            columns |-> {"id", "title", "episode_id", "opening_crawl", "director", "producer",
                         "release_date", "created", "edited", "url"},
            field_mappings |-> [f \in {} |-> ""],
            field_transformers |-> [f \in {"release_date", "created", "edited"} |->
                                       IF f = "release_date" THEN "strptime" ELSE "naive"],
            nullable_fields |-> {}]
      [] kind = "starship" ->
           [fields |-> <<"name", "model", "manufacturer", "cost_in_credits", "length",
                         "max_atmosphering_speed", "crew", "passengers", "cargo_capacity",
                         "consumables", "hyperdrive_rating", "MGLT", "starship_class",
                         "pilots", "films", "created", "edited", "url">>,
            strs |-> {"name", "model", "manufacturer", "cost_in_credits", "length",
                      "max_atmosphering_speed", "crew", "passengers", "cargo_capacity",
                      "consumables", "hyperdrive_rating", "MGLT", "starship_class", "url"},
            columns |-> {"id", "name", "model", "manufacturer", "cost_in_credits", "length",
                         "max_atmosphering_speed", "crew", "passengers", "cargo_capacity",
                         "consumables", "hyperdrive_rating", "mglt", "starship_class",
                         "created", "edited", "url"},
            field_mappings |-> [f \in {"MGLT"} |-> "mglt"],
            field_transformers |-> [f \in {"created", "edited"} |-> "naive"],
            nullable_fields |-> {}]
      [] kind = "character" ->
           [fields |-> <<"name", "height", "mass", "hair_color", "skin_color", "eye_color",
                         "birth_year", "gender", "homeworld", "films", "species", "vehicles",
                         "starships", "created", "edited", "url">>,
            strs |-> {"name", "height", "mass", "hair_color", "skin_color", "eye_color",
                      "birth_year", "gender", "homeworld", "url"},
            columns |-> {"id", "name", "height", "mass", "hair_color", "skin_color",
                         "eye_color", "birth_year", "gender", "created", "edited", "url"},
            field_mappings |-> [f \in {} |-> ""],
            field_transformers |-> [f \in {"created", "edited"} |-> "naive"],
            nullable_fields |-> {"height", "mass", "hair_color", "skin_color", "eye_color",
                                 "birth_year", "gender"}]

\* a mapper that takes the sentinel for null in every field
NullifiedEverywhere(field_name, value, nullable_fields) ==
    IF value = Value("str", "unknown", FALSE) THEN None ELSE value

\* if field_name in nullable_fields and value == "unknown": value = None
Nullified(field_name, value, nullable_fields) ==
    IF field_name \in nullable_fields /\ value = Value("str", "unknown", FALSE) THEN None ELSE value

\* a mapper that ignores the declared renames
TargetFieldUnmapped(field_name, field_mappings) == field_name

\* field_mappings.get(field_name, field_name)
TargetField(field_name, field_mappings) ==
    IF field_name \in DOMAIN field_mappings THEN field_mappings[field_name] ELSE field_name

\* the loop over input_dict.items(), model_data being what it has set so far
RECURSIVE MapItems(_, _, _, _)
MapItems(items, input_dict, m, model_data) ==
    IF items = <<>>
    THEN [st |-> "returned", value |-> model_data]
    ELSE LET field_name == Head(items)
             target_field == TargetField(field_name, m.field_mappings)
             value == Nullified(field_name, input_dict[field_name], m.nullable_fields)
             t == IF field_name \in DOMAIN m.field_transformers
                  THEN Transformed(m.field_transformers[field_name], value)
                  ELSE [st |-> "returned", value |-> value]
         IN  IF target_field \notin m.columns
             THEN MapItems(Tail(items), input_dict, m, model_data)
             ELSE IF t.st = "raised"
             THEN t
             ELSE MapItems(Tail(items), input_dict, m,
                           [f \in DOMAIN model_data \cup {target_field} |->
                               IF f = target_field THEN t.value ELSE model_data[f]])

_map_input_to_model(input_dict, m) == MapItems(m.fields, input_dict, m, [f \in {} |-> None])

\* a validated record: every field holds a value of its declared type, and
\* the str fields in `sentinels` hold "unknown"
InputRecord(kind, sentinels, aware) ==
    [f \in Range(Mapper(kind).fields) |->
        CASE f \in sentinels -> Value("str", "unknown", FALSE)
          [] f = "release_date" /\ f \notin sentinels -> Value("str", "1977-05-25", FALSE)
          [] f \in {"created", "edited"} -> Value("datetime", "2014-12-09T13:50:51", aware)
          [] f = "episode_id" -> Value("int", "4", FALSE)
          [] f \in Range(Mapper(kind).fields) \ (Mapper(kind).strs \cup {"created", "edited", "episode_id"})
               -> Value("list", "[]", FALSE)
          [] OTHER -> Value("str", "172", FALSE)]

InitMap ==
    /\ PopulateIdle
    /\ reader = <<>>
    /\ req = NoRequest
    /\ res = NoResult
    /\ \E kind \in {"film", "character", "starship"} :
       \E sentinels \in SUBSET Mapper(kind).strs :
       \E aware \in BOOLEAN :
           /\ Cardinality(sentinels) <= MaxSentinels
           /\ call = [fn |-> "_map_input_to_model", kind |-> kind,
                      input |-> InputRecord(kind, sentinels, aware)]
    /\ ret = NoReturn

MapInputToModel ==
    /\ Called("_map_input_to_model")
    /\ ret' = _map_input_to_model(call.input, Mapper(call.kind))
    /\ UNCHANGED <<populateVars, reader, req, res, call>>

SpecMap == InitMap /\ [][MapInputToModel]_vars

(***************************************************************************)
(* A list request: the domain service checks the filter, then               *)
(* paginate_with_repository counts, fetches one page, serializes it and     *)
(* computes the page metadata.  An optional value is a set with at most one *)
(* element.  The table is a sequence of names; a row is its index.          *)
(***************************************************************************)
MaxFilterLen == 100

Whitespace == {" ", "\t"}

\* a service that checks the filter as sent
StripNothing(s) == s

\* str.strip()
Strip(s) ==
    IF \A i \in 1..Len(s) : s[i] \in Whitespace
    THEN <<>>
    ELSE LET first == CHOOSE i \in 1..Len(s) :
                          s[i] \notin Whitespace /\ \A k \in 1..(i - 1) : s[k] \in Whitespace
             last == CHOOSE i \in 1..Len(s) :
                         s[i] \notin Whitespace /\ \A k \in (i + 1)..Len(s) : s[k] \in Whitespace
         IN  SubSeq(s, first, last)

\* raised by the domain services for a query parameter that fails a domain rule
BusinessValidationException(text, field) ==
    [kind |-> "BusinessValidationException", message |-> text, field |-> field,
     status_code |-> 400]

\* the rows a query with this optional filter selects: all of them, or those
\* whose name contains the filter, letter case ignored
Matching(rows, filter) ==
    LET Lower(c) == IF c = "A" THEN "a" ELSE c
        Lowered(t) == [i \in 1..Len(t) |-> Lower(t[i])]
        Contains(name, t) ==
            \E i \in 1..(Len(name) - Len(t) + 1) :
                Lowered(SubSeq(name, i, i + Len(t) - 1)) = Lowered(t)
    IN  IF filter = {}
        THEN 1..Len(rows)
        ELSE {r \in 1..Len(rows) : \A t \in filter : Contains(rows[r], t)}

\* the orders in which a SELECT without ORDER BY may deliver the rows S
Orders(S) == {o \in [1..Cardinality(S) -> S] : \A i, j \in 1..Cardinality(S) : o[i] = o[j] => i = j}

\* a page fetch that applies the offset and forgets the limit
get_all_unlimited(order, skip, limit) ==
    [i \in 1..(IF Len(order) - skip < 0 THEN 0 ELSE Len(order) - skip) |-> order[skip + i]]

\* select(...).offset(skip).limit(limit) on rows delivered in this order
get_all(order, skip, limit) ==
    [i \in 1..(IF Len(order) - skip < 0 THEN 0
               ELSE IF Len(order) - skip < limit THEN Len(order) - skip ELSE limit)
        |-> order[skip + i]]

\* a previous offset that is not kept from going below zero
previous_offset_unclamped(offset, limit) == offset - limit

\* max(0, params.offset - params.limit)
previous_offset(offset, limit) == IF offset - limit > 0 THEN offset - limit ELSE 0

PaginationMeta(total, offset, limit) ==
    [total |-> total, offset |-> offset, limit |-> limit,
     has_next |-> (offset + limit) < total,
     has_previous |-> offset > 0,
     next_offset |-> IF (offset + limit) < total THEN {offset + limit} ELSE {},
     previous_offset |-> IF offset > 0 THEN {previous_offset(offset, limit)} ELSE {}]

Query(q, filter, skip, limit) == [q |-> q, filter |-> filter, skip |-> skip, limit |-> limit]

\* filter strings a client may send: empty, blank, short, padded, at and over the length limit
Filters ==
    {<<>>, <<" ">>, <<" ", "\t">>, <<"a">>, <<"A">>, <<"\t", "b", " ">>, <<"a", " ", "b">>,
     Repeat("a", MaxFilterLen), <<" ">> \o Repeat("a", MaxFilterLen) \o <<" ">>,
     Repeat("a", MaxFilterLen + 1), <<" ">> \o Repeat("a", MaxFilterLen + 1)}

Names == {<<"a">>, <<"b">>}

\* a service that counts every row whatever the filter
QueriesCountingAll(title) == [count |-> {}, fetch |-> title]

\* the filter of the count statement and of the fetch handed to the paginator:
\* get_count_query(title) with get_by_title(title, ...), or get_count_query()
\* with get_all
Queries(title) ==
    IF title # {} THEN [count |-> title, fetch |-> title] ELSE [count |-> {}, fetch |-> {}]

InitList ==
    /\ PopulateIdle
    /\ reader = <<>>
    /\ req = NoRequest
    /\ res = NoResult
    /\ \E domain \in {"films", "characters", "starships"} :
       \E filter \in {{}} \cup {{f} : f \in Filters} :
       \E rows \in SeqsUpTo(Names, MaxRows) :
       \E offset \in 0..MaxOffset :
       \E limit \in 1..MaxLimit :
       \E scalar_null \in BOOLEAN :
           call = [fn |-> "get_all", domain |-> domain, filter |-> filter, rows |-> rows,
                   offset |-> offset, limit |-> limit, scalar_null |-> scalar_null]
    /\ ret = [st |-> "none", filter |-> {}, queries |-> Queries({}), events |-> <<>>, total |-> 0, items |-> <<>>,
              meta |-> PaginationMeta(0, 0, 0),
              exc |-> BusinessValidationException("", "")]

\* get_all_films / get_all_characters / get_all_starships up to the call of
\* paginate_with_repository: strip and check the filter, pick the queries
GetAllEntities ==
    /\ Called("get_all")
    /\ LET field == IF call.domain = "films" THEN "title" ELSE "name"
           stripped == {Strip(f) : f \in call.filter}
       IN  ret' = IF \E t \in stripped : Len(t) = 0
                  THEN [ret EXCEPT !.st = "raised",
                                   !.exc = BusinessValidationException("cannot be empty", field)]
                  ELSE IF \E t \in stripped : Len(t) > MaxFilterLen
                  THEN [ret EXCEPT !.st = "raised",
                                   !.exc = BusinessValidationException("cannot exceed 100 characters", field)]
                  ELSE [ret EXCEPT !.st = "count", !.filter = stripped, !.queries = Queries(stripped)]
    /\ UNCHANGED <<populateVars, reader, req, res, call>>

\* total = (await session.execute(count_stmt)).scalar() or 0
CountQuery ==
    /\ call.fn = "get_all" /\ ret.st = "count"
    /\ ret' = [ret EXCEPT !.st = "fetch",
                          !.events = Append(@, Query("count", ret.queries.count, 0, 0)),
                          !.total = IF call.scalar_null THEN 0
                                    ELSE Cardinality(Matching(call.rows, ret.queries.count))]
    /\ UNCHANGED <<populateVars, reader, req, res, call>>

\* a page fetch that also probes for one row past the page
PageFetchWithProbe ==
    /\ call.fn = "get_all" /\ ret.st = "fetch"
    /\ \E order \in Orders(Matching(call.rows, ret.queries.fetch)) :
           ret' = [ret EXCEPT !.st = "serialize",
                              !.events = @ \o <<Query("fetch", ret.queries.fetch, call.offset, call.limit),
                                                Query("fetch", ret.queries.fetch, call.offset + call.limit, 1)>>,
                              !.items = get_all(order, call.offset, call.limit)]
    /\ UNCHANGED <<populateVars, reader, req, res, call>>

\* items = await repository_get_all(skip=params.offset, limit=params.limit)
PageFetch ==
    /\ call.fn = "get_all" /\ ret.st = "fetch"
    /\ \E order \in Orders(Matching(call.rows, ret.queries.fetch)) :
           ret' = [ret EXCEPT !.st = "serialize",
                              !.events = Append(@, Query("fetch", ret.queries.fetch, call.offset, call.limit)),
                              !.items = get_all(order, call.offset, call.limit)]
    /\ UNCHANGED <<populateVars, reader, req, res, call>>

\* serializer(items), the metadata, the response
SerializeAndRespond ==
    /\ call.fn = "get_all" /\ ret.st = "serialize"
    /\ ret' = [ret EXCEPT !.st = "returned",
                          !.events = Append(@, Query("serialize", {}, 0, 0)),
                          !.meta = PaginationMeta(ret.total, call.offset, call.limit)]
    /\ UNCHANGED <<populateVars, reader, req, res, call>>

SpecList == InitList /\ [][GetAllEntities \/ CountQuery \/ PageFetch \/ SerializeAndRespond]_vars

(***************************************************************************)
(* The HTTP boundary: ExceptionHandlerMiddleware.dispatch on what the       *)
(* request handler returned or raised.  Two runs of one request are taken   *)
(* side by side; they differ at most in the text of the underlying         *)
(* exception.  A JSON value carries its JSON type.                         *)
(***************************************************************************)
Json(type, value) == [type |-> type, value |-> value]

\* status_code and error_code set by each exception class
ServiceExceptions ==
    [NotFoundException |-> [status_code |-> 404, error_code |-> "NOT_FOUND"],
     ConflictException |-> [status_code |-> 409, error_code |-> "CONFLICT"],
     ExternalServiceException |-> [status_code |-> 502, error_code |-> "EXTERNAL_SERVICE_ERROR"],
     InputValidationException |-> [status_code |-> 422, error_code |-> "VALIDATION_ERROR"],
     InternalServerException |-> [status_code |-> 500, error_code |-> "INTERNAL_SERVER_ERROR"],
     DatabaseException |-> [status_code |-> 500, error_code |-> "DATABASE_ERROR"]]

\* what the handler of a request raises at each place a failure can start,
\* the underlying exception saying `text`; NoExc where the handler returns
HandlerFailure(site, path, text) ==
    CASE site = "none" -> NoExc
      [] site = "fetch" -> FailedToFetch(path, [exc |-> text, status |-> 0])
      [] site = "decode" -> InvalidJson(path, [exc |-> text, status |-> 0])
      [] site = "validation" -> InputValidationException(BadCreatedAndStarship)
      [] site = "map" -> Reraised(RawException("ValueError", text))
      [] site = "commit" ->
             Reraised(DatabaseException("Failed to commit database transaction: {e}",
                                        [exc |-> text, status |-> 0]))
      [] site = "create" -> RawException("ConflictException", "Starship with this data already exists")
      [] site = "count" -> RawException("SQLAlchemyError", text)

\* the message and the details stand for their renderings as text: str()
\* of the details when there are any, "" when there are none
to_response_schema(e) ==
    [message |-> Json("string", e.message),
     details |-> Json("string", IF e.details = NoDetails THEN "" ELSE e.details),
     status_code |-> Json("int", ServiceExceptions[e.kind].status_code),
     error_code |-> Json("string", ServiceExceptions[e.kind].error_code)]

\* the response the middleware sends when the handler raised e
dispatch(e) ==
    IF e.kind \in DOMAIN ServiceExceptions
    THEN [status_code |-> ServiceExceptions[e.kind].status_code, content |-> to_response_schema(e)]
    ELSE [status_code |-> 500,
          content |-> [error |-> Json("string", "INTERNAL_SERVER_ERROR"),
                       message |-> Json("string", "An unexpected error occurred"),
                       details |-> Json("object", {})]]

InitDispatch ==
    /\ PopulateIdle
    /\ reader = <<>>
    /\ req = NoRequest
    /\ res = NoResult
    /\ \E site \in {"none", "fetch", "decode", "validation", "map", "commit", "create", "count"} :
       \E path \in IF site \in {"fetch", "decode"} THEN Paths ELSE {""} :
       \E texts \in {"connection refused", "duplicate key value", "timed out"}
                    \X {"connection refused", "duplicate key value", "timed out"} :
           call = [fn |-> "dispatch", site |-> site,
                   run |-> [i \in 1..2 |-> HandlerFailure(site, path, texts[i])]]
    /\ ret = NoReturn

Dispatch ==
    /\ Called("dispatch")
    /\ ret' = [st |-> "returned",
               response |-> [i \in 1..2 |->
                                IF call.run[i] = NoExc
                                THEN [status_code |-> 200, content |-> [message |-> Json("string", "Operation successful")]]
                                ELSE dispatch(call.run[i])]]
    /\ UNCHANGED <<populateVars, reader, req, res, call>>

SpecDispatch == InitDispatch /\ [][Dispatch]_vars

(***************************************************************************)
(* DatabaseManager.get_session: one session around one request body.  The  *)
(* body is what runs at the yield: a request handler that returns, raises  *)
(* one of its failures, or is cancelled.  ret follows the generator        *)
(* through its try / except / finally and records the calls it makes on    *)
(* the session.  The commit, the call inside the try block, may raise.     *)
(***************************************************************************)
CommitFailure == RawException("SQLAlchemyError", "commit")

InitSession ==
    /\ PopulateIdle
    /\ reader = <<>>
    /\ req = NoRequest
    /\ res = NoResult
    /\ \E site \in {"none", "fetch", "decode", "validation", "map", "commit", "create", "count", "cancel"} :
       \E path \in IF site \in {"fetch", "decode"} THEN Paths ELSE {""} :
       \E text \in {"connection refused", "duplicate key value", "timed out"} :
       \E commit_raises \in BOOLEAN :
           call = [fn |-> "get_session",
                   body |-> IF site = "cancel" THEN RawException("CancelledError", "")
                            ELSE HandlerFailure(site, path, text),
                   commit_raises |-> commit_raises]
    /\ ret = NoReturn

\* async with self.session_maker() as session: ... yield session
YieldSession ==
    /\ Called("get_session")
    /\ ret' = [st |-> "body", calls |-> <<>>, exc |-> NoExc]
    /\ UNCHANGED <<populateVars, reader, req, res, call>>

\* the body ends: control comes back at the yield, or its exception is thrown
\* in there; `except Exception` does not take a CancelledError
BodyExits ==
    /\ call.fn = "get_session" /\ ret.st = "body"
    /\ ret' = [ret EXCEPT !.st = IF call.body = NoExc THEN "commit"
                                 ELSE IF call.body.kind = "CancelledError" THEN "finally"
                                 ELSE "except",
                          !.exc = call.body]
    /\ UNCHANGED <<populateVars, reader, req, res, call>>

\* a commit outside the try block: its failure goes straight to the finally clause
SessionCommitOutsideTry ==
    /\ call.fn = "get_session" /\ ret.st = "commit"
    /\ ret' = [ret EXCEPT !.calls = Append(@, "commit"),
                          !.st = "finally",
                          !.exc = IF call.commit_raises THEN CommitFailure ELSE @]
    /\ UNCHANGED <<populateVars, reader, req, res, call>>

\* await session.commit()
SessionCommit ==
    /\ call.fn = "get_session" /\ ret.st = "commit"
    /\ ret' = [ret EXCEPT !.calls = Append(@, "commit"),
                          !.st = IF call.commit_raises THEN "except" ELSE "finally",
                          !.exc = IF call.commit_raises THEN CommitFailure ELSE @]
    /\ UNCHANGED <<populateVars, reader, req, res, call>>

\* except Exception: await session.rollback(); raise
SessionRollbackAndRaise ==
    /\ call.fn = "get_session" /\ ret.st = "except"
    /\ ret' = [ret EXCEPT !.calls = Append(@, "rollback"), !.st = "finally"]
    /\ UNCHANGED <<populateVars, reader, req, res, call>>

\* finally: await session.close(); then the generator returns or raises
SessionClose ==
    /\ call.fn = "get_session" /\ ret.st = "finally"
    /\ ret' = [ret EXCEPT !.calls = Append(@, "close"),
                          !.st = IF ret.exc = NoExc THEN "returned" ELSE "raised"]
    /\ UNCHANGED <<populateVars, reader, req, res, call>>

SpecSession ==
    InitSession /\ [][YieldSession \/ BodyExits \/ SessionCommit \/ SessionRollbackAndRaise
                        \/ SessionClose]_vars

(***************************************************************************)
(* The mutation paths: FilmRepository.update, CharacterRepository.update,  *)
(* StarshipRepository.create and the commit of populate.  Each makes its   *)
(* session calls inside a try block; `failing` names the call that raises  *)
(* (none when "") and `error` the class and text of what it raises.        *)
(***************************************************************************)
\* the session calls of each path, in order, and the message of its DatabaseException
MutationPaths ==
    [update_film |-> [calls |-> <<"commit", "refresh">>, text |-> "Failed to update film: {e}"],
     update_character |-> [calls |-> <<"commit", "refresh">>, text |-> "Failed to update character: {e}"],
     create_starship |-> [calls |-> <<"add", "commit", "refresh">>, text |-> "Failed to create starship: {e}"],
     populate_commit |-> [calls |-> <<"commit">>, text |-> "Failed to commit database transaction: {e}"]]

\* every except clause raises DatabaseException: no path tells a uniqueness violation apart
MappedErrorAlwaysDatabase(path, error) ==
    DatabaseException(MutationPaths[path].text, [exc |-> error.message.text, status |-> 0])

\* the except clause that takes the error decides what is raised
MappedError(path, error) ==
    IF path = "create_starship" /\ error.kind = "IntegrityError"
    THEN RawException("ConflictException", "Starship with this data already exists")
    ELSE DatabaseException(MutationPaths[path].text, [exc |-> error.message.text, status |-> 0])

InitMutate ==
    /\ PopulateIdle
    /\ reader = <<>>
    /\ req = NoRequest
    /\ res = NoResult
    /\ \E path \in DOMAIN MutationPaths :
       \E failing \in {"", "commit", "refresh"} \cap ({""} \cup Range(MutationPaths[path].calls)) :
       \E kind \in {"IntegrityError", "OperationalError", "InvalidRequestError"} :
       \E text \in {"connection refused", "duplicate key value", "timed out"} :
           call = [fn |-> "mutate", path |-> path, failing |-> failing,
                   error |-> IF failing = "" THEN NoExc ELSE RawException(kind, text)]
    /\ ret = NoReturn

\* the next call of the try block is made on the session; it returns or raises
MutationCall ==
    /\ call.fn = "mutate" /\ ret.st \in {"none", "try"}
    /\ LET calls == IF ret.st = "none" THEN <<>> ELSE ret.calls
           op == MutationPaths[call.path].calls[Len(calls) + 1]
       IN  ret' = [st |-> IF op = call.failing THEN "except"
                          ELSE IF Len(calls) + 1 = Len(MutationPaths[call.path].calls) THEN "returned"
                          ELSE "try",
                   calls |-> Append(calls, op),
                   exc |-> IF op = call.failing THEN call.error ELSE NoExc]
    /\ UNCHANGED <<populateVars, reader, req, res, call>>

\* except IntegrityError / except SQLAlchemyError: await self.session.rollback()
MutationRollback ==
    /\ call.fn = "mutate" /\ ret.st = "except"
    /\ ret' = [ret EXCEPT !.st = "rolled_back", !.calls = Append(@, "rollback")]
    /\ UNCHANGED <<populateVars, reader, req, res, call>>

\* raise ConflictException(...) / raise DatabaseException(...)
MutationRaise ==
    /\ call.fn = "mutate" /\ ret.st = "rolled_back"
    /\ ret' = [ret EXCEPT !.st = "raised", !.exc = MappedError(call.path, ret.exc)]
    /\ UNCHANGED <<populateVars, reader, req, res, call>>

SpecMutate == InitMutate /\ [][MutationCall \/ MutationRollback \/ MutationRaise]_vars

(***************************************************************************)
(* perform_health_check: the database probe, the probe of the external     *)
(* source, the report.  The database probe ends "ok" or with the class of  *)
(* the exception it raised; the external probe with the HTTP status of the *)
(* answer or with the class of the exception it raised (its fault).        *)
(***************************************************************************)
InitHealth ==
    /\ PopulateIdle
    /\ reader = <<>>
    /\ req = NoRequest
    /\ res = NoResult
    /\ \E db \in {"ok", "OperationalError", "InterfaceError", "TimeoutError"} :
       \E swapi \in {[fault |-> "", status |-> s] : s \in Statuses}
                    \cup {[fault |-> f, status |-> 0] : f \in {"ClientConnectorError", "TimeoutError"}} :
           call = [fn |-> "perform_health_check", db |-> db, swapi |-> swapi]
    /\ ret = NoReturn

\* db.execute(text("SELECT 1")) inside try / except Exception
ProbePostgres ==
    /\ Called("perform_health_check")
    /\ ret' = [st |-> "swapi",
               postgres_status |-> IF call.db = "ok" THEN "ok" ELSE "error",
               swapi_status |-> "unknown"]
    /\ UNCHANGED <<populateVars, reader, req, res, call>>

\* a probe content with any answer at all
ProbeSwapiAnyAnswer ==
    /\ call.fn = "perform_health_check" /\ ret.st = "swapi"
    /\ ret' = [ret EXCEPT !.st = "report",
                          !.swapi_status = IF call.swapi.fault = "" THEN "ok" ELSE "error"]
    /\ UNCHANGED <<populateVars, reader, req, res, call>>

\* session.get(settings.swapi_status_url) inside try / except Exception
ProbeSwapi ==
    /\ call.fn = "perform_health_check" /\ ret.st = "swapi"
    /\ ret' = [ret EXCEPT !.st = "report",
                          !.swapi_status = IF call.swapi.fault = "" /\ call.swapi.status = 200
                                           THEN "ok" ELSE "error"]
    /\ UNCHANGED <<populateVars, reader, req, res, call>>

\* return HealthCheckResponse(...)
ReturnHealthCheckResponse ==
    /\ call.fn = "perform_health_check" /\ ret.st = "report"
    /\ ret' = [st |-> "returned",
               status |-> IF ret.postgres_status = "ok" /\ ret.swapi_status = "ok"
                          THEN "healthy" ELSE "unhealthy",
               fastapi |-> "ok",
               postgres |-> ret.postgres_status,
               swapi_external |-> ret.swapi_status]
    /\ UNCHANGED <<populateVars, reader, req, res, call>>

SpecHealth == InitHealth /\ [][ProbePostgres \/ ProbeSwapi \/ ReturnHealthCheckResponse]_vars

(***************************************************************************)
(* lifespan: two log calls, the application body at the yield, and the     *)
(* finally clause with two log calls, db_manager.close() and a last log    *)
(* call.  A startup log call may raise, the body may raise, and the close  *)
(* may raise; ret records the log and the number of close calls.           *)
(***************************************************************************)
LifespanLog ==
    <<"Starting up SWAPI Service...",
      "SWAPI Service startup completed",
      "Shutting down SWAPI Service...",
      "Closing database connections...",
      "SWAPI Service shutdown completed">>

InitLifespan ==
    /\ PopulateIdle
    /\ reader = <<>>
    /\ req = NoRequest
    /\ res = NoResult
    /\ \E startup_raises \in 0..2 :
       \E body \in {"", "ValueError", "RuntimeError", "KeyboardInterrupt", "CancelledError"} :
       \E close_raises \in BOOLEAN :
           call = [fn |-> "lifespan", startup_raises |-> startup_raises, body |-> body,
                   close_raises |-> close_raises]
    /\ ret = NoReturn

\* logger.info("Starting up SWAPI Service..."); logger.info("SWAPI Service startup completed")
StartUp ==
    /\ call.fn = "lifespan" /\ ret.st \in {"none", "starting"}
    /\ LET log == IF ret.st = "none" THEN <<>> ELSE ret.log
           n == Len(log) + 1
       IN  ret' = IF call.startup_raises = n
                  THEN [st |-> "raised", log |-> log, closes |-> 0, exc |-> "Startup error"]
                  ELSE [st |-> IF n = 1 THEN "starting" ELSE "yielded",
                        log |-> Append(log, LifespanLog[n]), closes |-> 0, exc |-> ""]
    /\ UNCHANGED <<populateVars, reader, req, res, call>>

\* try: yield -- the application runs and exits, normally or by raising
ApplicationExits ==
    /\ call.fn = "lifespan" /\ ret.st = "yielded"
    /\ ret' = [ret EXCEPT !.st = "finally", !.exc = call.body]
    /\ UNCHANGED <<populateVars, reader, req, res, call>>

\* finally: logger.info("Shutting down ..."); logger.info("Closing database connections...")
ShutDown ==
    /\ call.fn = "lifespan" /\ ret.st \in {"finally", "shutting"}
    /\ ret' = [ret EXCEPT !.st = IF ret.st = "finally" THEN "shutting" ELSE "closing",
                          !.log = Append(@, LifespanLog[Len(@) + 1])]
    /\ UNCHANGED <<populateVars, reader, req, res, call>>

\* a close that is skipped when the application raised
CloseUnlessRaised ==
    /\ call.fn = "lifespan" /\ ret.st = "closing"
    /\ ret' = IF ret.exc # "" THEN [ret EXCEPT !.st = "closed"]
              ELSE IF call.close_raises
              THEN [ret EXCEPT !.st = "raised", !.closes = @ + 1, !.exc = "Database close error"]
              ELSE [ret EXCEPT !.st = "closed", !.closes = @ + 1]
    /\ UNCHANGED <<populateVars, reader, req, res, call>>

\* await db_manager.close()
CloseDbManager ==
    /\ call.fn = "lifespan" /\ ret.st = "closing"
    /\ ret' = IF call.close_raises
              THEN [ret EXCEPT !.st = "raised", !.closes = @ + 1, !.exc = "Database close error"]
              ELSE [ret EXCEPT !.st = "closed", !.closes = @ + 1]
    /\ UNCHANGED <<populateVars, reader, req, res, call>>

\* logger.info("SWAPI Service shutdown completed"); the generator ends
ShutdownCompleted ==
    /\ call.fn = "lifespan" /\ ret.st = "closed"
    /\ ret' = [ret EXCEPT !.st = IF ret.exc = "" THEN "returned" ELSE "raised",
                          !.log = Append(@, LifespanLog[Len(@) + 1])]
    /\ UNCHANGED <<populateVars, reader, req, res, call>>

SpecLifespan ==
    InitLifespan /\ [][StartUp \/ ApplicationExits \/ ShutDown \/ CloseDbManager \/ ShutdownCompleted]_vars

(***************************************************************************)
(* A client walking the pages of an unfiltered list on a store that does   *)
(* not change: it requests an offset, then follows the next_offset (or the *)
(* previous_offset) of the answer until there is none.  The rows are       *)
(* 1..total; each request's SELECT, having no ORDER BY, may deliver them   *)
(* in any order.                                                           *)
(***************************************************************************)
InitWalk ==
    /\ PopulateIdle
    /\ reader = <<>>
    /\ req = NoRequest
    /\ res = NoResult
    /\ \E total \in 0..MaxRows :
       \E limit \in 1..MaxLimit :
       \E towards \in {"next", "previous"} :
       \E offset \in IF towards = "next" THEN {0} ELSE 0..MaxOffset :
           /\ call = [fn |-> "walk", total |-> total, limit |-> limit, towards |-> towards]
           /\ ret = [st |-> "request", offset |-> offset, offsets |-> <<>>, pages |-> <<>>,
                     meta |-> PaginationMeta(0, 0, 0)]

\* one list request at the current offset: the page and its metadata
WalkRequest ==
    /\ call.fn = "walk" /\ ret.st = "request"
    /\ \E order \in Orders(1..call.total) :
           ret' = [ret EXCEPT !.st = "answered",
                              !.offsets = Append(@, ret.offset),
                              !.pages = Append(@, get_all(order, ret.offset, call.limit)),
                              !.meta = PaginationMeta(call.total, ret.offset, call.limit)]
    /\ UNCHANGED <<populateVars, reader, req, res, call>>

\* the client takes the offset the answer names, or stops when it names none
WalkFollow ==
    /\ call.fn = "walk" /\ ret.st = "answered"
    /\ LET following == IF call.towards = "next" THEN ret.meta.next_offset
                        ELSE ret.meta.previous_offset
       IN  ret' = IF following = {} THEN [ret EXCEPT !.st = "done"]
                  ELSE [ret EXCEPT !.st = "request", !.offset = CHOOSE o \in following : TRUE]
    /\ UNCHANGED <<populateVars, reader, req, res, call>>

SpecWalk == InitWalk /\ [][WalkRequest \/ WalkFollow]_vars

(***************************************************************************)
(* The populator on film records that carry their release_date, well       *)
(* formed or not, next to the urls with and without an id.                 *)
(***************************************************************************)
InitStage ==
    /\ \E f \in SeqsUpTo(RecordUrls \X {"1977-05-25", "25 May 1977"}, MaxRecords) :
       \E p, s \in SeqsUpTo(RecordUrls, MaxRecords) :
           /\ Len(f) + Len(p) + Len(s) <= MaxTotalRecords
           /\ data = [films |-> [i \in 1..Len(f) |->
                                    [url |-> f[i][1], release_date |-> f[i][2],
                                     characters |-> <<>>, starships |-> <<>>]],
                      people |-> Unreferencing("people", p),
                      starships |-> Unreferencing("starships", s)]
           /\ task = [path \in Paths |-> DoneTask(data[path])]
    /\ pc = "map"
    /\ gathered = NoExc
    /\ films = EmptyDict
    /\ characters = EmptyDict
    /\ starships = EmptyDict
    /\ session = NewSession
    /\ store = EmptyStore
    /\ raising = NoExc
    /\ outcome = NoOutcome
    /\ reader = <<>>
    /\ req = NoRequest
    /\ res = NoResult
    /\ call = NoCall
    /\ ret = NoReturn

SpecStage == InitStage /\ [][NextPopulate]_vars

(***************************************************************************)
(* Two populate requests over the same source data.  Each request has its  *)
(* own session; a request reads and writes the tables at its commit only,  *)
(* so the other request is one step, taken at any point of this one.       *)
(***************************************************************************)
InitTwice ==
    /\ \E s \in ListsWithin("starships", MaxTotalRecords, 0) :
       \E p \in ListsWithin("people", MaxTotalRecords - Len(s), MaxTotalRefs) :
       \E f \in ListsWithin("films", MaxTotalRecords - Len(s) - Len(p),
                            MaxTotalRefs - RefsIn("people", p)) :
           /\ data = [films |-> f, people |-> p, starships |-> s]
           /\ task = [path \in Paths |->
                         CASE path = "films" -> DoneTask(f)
                           [] path = "people" -> DoneTask(p)
                           [] path = "starships" -> DoneTask(s)]
    /\ pc = "map"
    /\ gathered = NoExc
    /\ films = EmptyDict
    /\ characters = EmptyDict
    /\ starships = EmptyDict
    /\ session = NewSession
    /\ store = EmptyStore
    /\ raising = NoExc
    /\ outcome = NoOutcome
    /\ reader = <<>>
    /\ req = NoRequest
    /\ res = NoResult
    /\ call = [fn |-> "populatedb"]
    /\ ret = [st |-> "none", exc |-> NoExc]

\* the other request, from its map phase to its response
PopulateDb ==
    /\ call.fn = "populatedb"
    /\ ret.st = "none"
    /\ IF MapFails(data)
       THEN /\ ret' = [st |-> "raised", exc |-> Reraised(MapFailure(data))]
            /\ store' = store
       ELSE LET ss == MapStarships(data.starships)
                cs == MapCharacters(data.people)
                fs == LinkFilms(MapFilms(data.films), data.films, cs, ss)
                ds == LinkCharacters(cs, data.people, ss)
            IN  \/ /\ ~FlushRefused(fs, ds, ss, store)
                   /\ store' = Flushed(fs, ds, ss, store)
                   /\ ret' = [st |-> "returned", exc |-> NoExc]
                \/ \E text \in {"IntegrityError", "OperationalError"} :
                       /\ text = "IntegrityError" => FlushRefused(fs, ds, ss, store)
                       /\ ret' = [st |-> "raised",
                                  exc |-> Reraised(DatabaseException(
                                              "Failed to commit database transaction: {e}",
                                              [exc |-> text, status |-> 0]))]
                       /\ store' = store
    /\ UNCHANGED <<pc, task, gathered, data, films, characters, starships, session,
                   raising, outcome, reader, req, res, call>>

SpecTwice == InitTwice /\ [][NextPopulate \/ PopulateDb]_vars

(***************************************************************************)
(* Properties.                                                             *)
(***************************************************************************)
IdOf(url) == extract_id_from_url(url)

UrlsOf(records) == {records[i].url : i \in 1..Len(records)}

\* the link phase has run
Linked == pc \in {"commit", "commit_failed", "return"} \/ Count(session.calls, "commit") > 0

\* st holds a row for every fetched entity and for every association the link phase wired
AllPersisted(st) ==
    /\ st.films = {[id |-> IdOf(u), url |-> u] : u \in UrlsOf(data.films)}
    /\ st.characters = {[id |-> IdOf(u), url |-> u] : u \in UrlsOf(data.people)}
    /\ st.starships = {[id |-> IdOf(u), url |-> u] : u \in UrlsOf(data.starships)}
    /\ st.character_films =
           {<<IdOf(c), IdOf(f)>> : <<f, c>> \in
               {x \in (DOMAIN films) \X (DOMAIN characters) : x[2] \in Range(films[x[1]].characters)}}
    /\ st.film_starships =
           {<<IdOf(f), IdOf(s)>> : <<f, s>> \in
               {x \in (DOMAIN films) \X (DOMAIN starships) : x[2] \in Range(films[x[1]].starships)}}
    /\ st.character_starships =
           {<<IdOf(c), IdOf(s)>> : <<c, s>> \in
               {x \in (DOMAIN characters) \X (DOMAIN starships) :
                   x[2] \in Range(characters[x[1]].starships)}}

NonePersisted(st) == st = EmptyStore

\* C1: at every moment of a populate, and whatever its outcome, the store holds either
\* every fetched entity with every wired association or nothing of the invocation; it
\* holds all of them once populate returned and none once populate raised.
C1_AllOrNothing ==
    /\ NonePersisted(store) \/ (Linked /\ AllPersisted(store))
    /\ outcome.state = "returned" => AllPersisted(store)
    /\ outcome.state = "raised" => NonePersisted(store)

C1_Witness ==
    /\ outcome.state = "returned"
    /\ store.films # {} /\ store.characters # {} /\ store.starships # {}
    /\ store.character_films # {}
    /\ store.character_starships # {}

\* C2: every query of a concurrent list request sees none of the populate's rows or all of them.
C2_NoPartialView ==
    \A i \in 1..Len(reader) : NonePersisted(reader[i]) \/ AllPersisted(reader[i])

C2_Witness ==
    /\ Len(reader) = 2
    /\ NonePersisted(reader[1])
    /\ reader[2].films # {} /\ reader[2].characters # {}
    /\ reader[2].character_films # {}

Failed(p) == task[p].st = "done" /\ ~task[p].result.ok

\* the map/stage/link/commit sequence has started
SequenceStarted ==
    \/ pc \in {"stage", "link", "commit", "commit_failed", "return"}
    \/ data # NoData
    \/ films # EmptyDict \/ characters # EmptyDict \/ starships # EmptyDict
    \/ session.calls # <<>> /\ session.calls # <<"rollback">>
    \/ raising.kind \in {"ValueError", "SQLAlchemyError", "DatabaseException"}

\* C3: the sequence starts only when the three fetches have returned their lists; when a
\* fetch fails, populate raises the error of the first fetch that failed (the only one, if
\* one failed: ExternalServiceException for an HTTP 500), nothing is staged or persisted and
\* the lists of the other fetches are never used.
C3_FetchFailureAborts ==
    /\ (pc = "map" \/ SequenceStarted) => \A p \in Paths : task[p].st = "done" /\ task[p].result.ok
    /\ (\E p \in Paths : Failed(p)) =>
           /\ ~SequenceStarted
           /\ pc \in {"gather", "except", "done"}
           /\ session.new = {} /\ Count(session.calls, "add") = 0
           /\ NonePersisted(store)
           /\ gathered \in {task[p].result.exc : p \in {q \in Paths : Failed(q)}}
           /\ pc \in {"except", "done"} => raising = gathered
           /\ pc = "done" =>
                  /\ outcome = [state |-> "raised", exc |-> gathered]
                  /\ \A p \in Paths :
                         (Failed(p) /\ \A q \in Paths \ {p} : ~Failed(q)) =>
                             outcome.exc = task[p].result.exc
                  /\ gathered.message.cause.status = 500 =>
                         outcome.exc.kind = "ExternalServiceException"

C3_Witness ==
    /\ pc = "done"
    /\ Failed("starships")
    /\ task["starships"].result.exc.message.cause.status = 500
    /\ task["films"].st = "done" /\ task["films"].result.value # <<>>
    /\ task["people"].st = "done" /\ task["people"].result.value # <<>>
    /\ outcome.state = "raised" /\ outcome.exc.kind = "ExternalServiceException"

\* C4: a failed populate hands its caller the InputValidationException, ExternalServiceException
\* or DatabaseException raised inside, unchanged, and for any other exception an
\* InternalServerException whose details carry the text of that exception; the session was
\* rolled back before; a populate that did not fail hands back the acknowledgement.
C4_ErrorPropagation ==
    /\ pc = "done" <=> outcome.state # "none"
    /\ outcome.state = "raised" =>
           /\ raising # NoExc
           /\ raising.kind \in KnownKinds => outcome.exc = raising
           /\ raising.kind \notin KnownKinds =>
                  /\ outcome.exc.kind = "InternalServerException"
                  /\ outcome.exc.details.error = raising.message
                  /\ outcome.exc.message.text =
                         "An unexpected error occurred during database population"
           /\ session.calls # <<>> /\ session.calls[Len(session.calls)] = "rollback"
           /\ session.new = {}
    /\ outcome.state = "returned" =>
           /\ raising = NoExc /\ outcome.exc = NoExc
           /\ session.calls # <<>> /\ session.calls[Len(session.calls)] = "commit"

C4_Witness ==
    /\ outcome.state = "raised"
    /\ raising.kind = "ValueError"
    /\ outcome.exc.kind = "InternalServerException"
    /\ outcome.exc.details.error.text = "Could not extract ID from URL: {url}"

\* C5: a populate that returned made exactly one commit and no rollback on its session; a
\* populate that raised made exactly one rollback, also when the commit itself raised.
C5_OneTerminalAction ==
    /\ outcome.state = "returned" =>
           Count(session.calls, "commit") = 1 /\ Count(session.calls, "rollback") = 0
    /\ outcome.state = "raised" => Count(session.calls, "rollback") = 1

\* the call of _parse_swapi_data has ended
Parsed == res # NoResult

Answered(status) == req.exchange.fault = "" /\ req.exchange.status = status

ItemsFetched == IF Answered(200) /\ req.exchange.body.kind = "json" THEN req.exchange.body.items ELSE <<>>

IsInvalidRecord(it) == it.obj /\ it.errors # <<>>

\* C6: for every response status other than 200 the fetch raises ExternalServiceException
\* carrying the resource name and the status, and returns no list.
C6_NonOkStatusRaises ==
    (Parsed /\ req.exchange.fault = "" /\ req.exchange.status # 200) =>
        /\ ~res.ok
        /\ res.exc.kind = "ExternalServiceException"
        /\ res.exc.message.path = req.path
        /\ res.exc.message.cause.status = req.exchange.status

C8_DecodeFailureDistinct ==
    Parsed =>
        /\ (Answered(200) /\ req.exchange.body.kind = "garbled") =>
               ~res.ok /\ res.exc.kind = "ExternalServiceException" /\ res.exc.message.path = req.path
        /\ (res.exc.message.text = "Invalid JSON response from SWAPI {path}: {e}") <=>
               (Answered(200) /\ req.exchange.body.kind = "garbled")

C8_Witness ==
    /\ Parsed
    /\ Answered(200) /\ req.exchange.body.kind = "garbled"
    /\ res.exc.message.text = "Invalid JSON response from SWAPI {path}: {e}"

AllUrls == RecordUrls \cup RefUrls

\* some record of the list with the given url lists the target url in the given field
FilmListsCharacter(f, c) ==
    \E i \in 1..Len(data.films) : data.films[i].url = f /\ c \in Range(data.films[i].characters)

FilmListsStarship(f, s) ==
    \E i \in 1..Len(data.films) : data.films[i].url = f /\ s \in Range(data.films[i].starships)

CharacterListsStarship(c, s) ==
    \E i \in 1..Len(data.people) : data.people[i].url = c /\ s \in Range(data.people[i].starships)

\* C9: once linked, a film holds a character (a starship) exactly when a record of the film
\* lists its url and a record with that url was fetched, and a character holds a starship
\* exactly when a record of the character lists its url and that starship was fetched; a
\* listed url of no fetched entity raises nothing; after a successful populate the join
\* tables hold exactly these pairs.
C9_LinkedExactlyWhenListedAndFetched ==
    /\ Linked =>
           /\ \A f \in DOMAIN films, c \in AllUrls :
                  c \in Range(films[f].characters) <=>
                      (FilmListsCharacter(f, c) /\ c \in UrlsOf(data.people))
           /\ \A f \in DOMAIN films, s \in AllUrls :
                  s \in Range(films[f].starships) <=>
                      (FilmListsStarship(f, s) /\ s \in UrlsOf(data.starships))
           /\ \A c \in DOMAIN characters, s \in AllUrls :
                  s \in Range(characters[c].starships) <=>
                      (CharacterListsStarship(c, s) /\ s \in UrlsOf(data.starships))
    /\ raising.kind \notin {"", "ValueError", "SQLAlchemyError", "DatabaseException"} => FALSE
    /\ raising.kind = "ValueError" => MapFails(data) /\ ~Linked
    /\ outcome.state = "returned" =>
           /\ store.character_films =
                  {<<IdOf(x[2]), IdOf(x[1])>> : x \in
                      {y \in UrlsOf(data.films) \X UrlsOf(data.people) :
                          FilmListsCharacter(y[1], y[2])}}
           /\ store.film_starships =
                  {<<IdOf(x[1]), IdOf(x[2])>> : x \in
                      {y \in UrlsOf(data.films) \X UrlsOf(data.starships) :
                          FilmListsStarship(y[1], y[2])}}
           /\ store.character_starships =
                  {<<IdOf(x[1]), IdOf(x[2])>> : x \in
                      {y \in UrlsOf(data.people) \X UrlsOf(data.starships) :
                          CharacterListsStarship(y[1], y[2])}}

C9_Witness ==
    /\ outcome.state = "returned"
    /\ \E i \in 1..Len(data.films) :
           /\ Range(data.films[i].characters) = {U1, U2}
           /\ data.films[i].starships = <<U2>>
    /\ UrlsOf(data.people) = {U1}
    /\ UrlsOf(data.starships) = {U2}
    /\ CharacterListsStarship(U1, U2)
    /\ store.character_films = {<<1, IdOf(data.films[1].url)>>}
    /\ store.character_starships = {<<1, 2>>}

\* C10: once linked, no character's starship collection holds a starship twice.
C10_NoDuplicateCharacterStarship ==
    Linked => \A c \in DOMAIN characters : ~HasDuplicates(characters[c].starships)

C10_Witness ==
    /\ Linked
    /\ \E i \in 1..Len(data.people) :
           /\ data.people[i].starships = <<U1, U1>>
           /\ characters[data.people[i].url].starships = <<U1>>
           /\ \E f \in DOMAIN films :
                  /\ U1 \in Range(films[f].starships)
                  /\ data.people[i].url \in Range(films[f].characters)


(***************************************************************************)
(* The url forms the extractor is specified for: the last path segment is  *)
(* a digit sequence, with at most one slash after it.                      *)
(***************************************************************************)
StripSlash(url) ==
    IF Len(url) > 0 /\ url[Len(url)] = "/" THEN SubSeq(url, 1, Len(url) - 1) ELSE url

LastSlash(s) ==
    IF \E i \in 1..Len(s) : s[i] = "/"
    THEN CHOOSE i \in 1..Len(s) : s[i] = "/" /\ \A k \in (i + 1)..Len(s) : s[k] # "/"
    ELSE 0

TrailingSegment(url) ==
    LET s == StripSlash(url)
    IN  IF LastSlash(s) = 0 THEN <<>> ELSE SubSeq(s, LastSlash(s) + 1, Len(s))

HasTrailingNumber(url) ==
    /\ TrailingSegment(url) # <<>>
    /\ \A i \in 1..Len(TrailingSegment(url)) : TrailingSegment(url)[i] \in Digits

\* C12: extract_id returns N exactly for the urls whose last path segment is
\* the digit sequence N, optionally followed by one slash; for every other
\* string it raises and returns no value.
C12_ExtractIdOfTrailingSegment ==
    (call.fn = "extract_id_from_url" /\ ret.st # "none") =>
        IF HasTrailingNumber(call.url)
        THEN ret.st = "returned" /\ ret.value = IntOf(TrailingSegment(call.url))
        ELSE ret.st = "raised" /\ ret.exc.kind = "ValueError"

(***************************************************************************)
(* Identity of the staged entities.                                        *)
(***************************************************************************)
Mapped == pc \in {"stage", "link"}

DictOf(path) ==
    CASE path = "films" -> films [] path = "people" -> characters [] path = "starships" -> starships

KindOf(path) ==
    CASE path = "films" -> "film" [] path = "people" -> "character" [] path = "starships" -> "starship"

MapperCalled == call.fn = "_map_input_to_model" /\ ret.st # "none"

Sentinel == Value("str", "unknown", FALSE)

NullableSet(kind) ==
    IF kind = "character"
    THEN {"height", "mass", "hair_color", "skin_color", "eye_color", "birth_year", "gender"}
    ELSE {}

ValueTransforms == {"release_date", "created", "edited"}

Renamed(f) == IF f = "MGLT" THEN "mglt" ELSE f

\* input fields the entity shape has a place for
Kept == {f \in DOMAIN call.input : Renamed(f) \in Mapper(call.kind).columns}

SentinelHandled(f) ==
    ret.value[Renamed(f)] =
        IF f \in NullableSet(call.kind) /\ call.input[f] = Sentinel THEN None ELSE call.input[f]

\* C13 as stated: "unknown" becomes null exactly in the nullable fields; any
\* other value of a nullable field, and "unknown" in any other field, is copied
\* unchanged.
C13_SentinelNullExactlyInNullableSet ==
    MapperCalled =>
        \A f \in Kept : (f \in NullableSet(call.kind) \/ call.input[f] = Sentinel) =>
            ret.st = "returned" /\ SentinelHandled(f)

\* C13 amended: "unknown" becomes null exactly in the nullable fields; any other
\* value of a nullable field is copied unchanged; "unknown" in another field is
\* never made null: it is copied unchanged if the field has no value transform
\* and is handed to the transform otherwise, where the date parse of
\* release_date fails on it (ValueError) and no entity is built.
C13_SentinelNullInNullableSetTransformElsewhere ==
    MapperCalled =>
        /\ ret.st = "raised" <=>
               \E f \in Kept \cap ValueTransforms : call.input[f] = Sentinel
        /\ ret.st = "raised" => ret.exc.kind = "ValueError" /\ call.input["release_date"] = Sentinel
        /\ ret.st = "returned" =>
               \A f \in Kept : (f \in NullableSet(call.kind) \/ call.input[f] = Sentinel) =>
                   SentinelHandled(f)

\* a character with height and name "unknown": height is null, name is kept
C13_Witness ==
    /\ MapperCalled
    /\ call.kind = "character"
    /\ call.input["height"] = Sentinel
    /\ call.input["name"] = Sentinel
    /\ call.input["mass"] # Sentinel
    /\ ret.st = "returned"
    /\ ret.value["height"] = None
    /\ ret.value["name"] = Sentinel
    /\ ret.value["mass"] = call.input["mass"]

\* C14: the entity receives exactly the input fields whose target name (the
\* renamed name where a rename is declared) is a field of the entity shape,
\* each with its input value; other input fields are dropped without error and
\* no other field, the id in particular, is set.
C14_ExactlyTheShapeFields ==
    MapperCalled =>
        /\ ret.st = "returned" =>
               /\ DOMAIN ret.value = {Renamed(f) : f \in DOMAIN call.input} \cap Mapper(call.kind).columns
               /\ "id" \notin DOMAIN ret.value
               /\ \A f \in Kept \ (ValueTransforms \cup NullableSet(call.kind)) :
                      ret.value[Renamed(f)] = call.input[f]
        /\ (\A f \in Kept \cap ValueTransforms : call.input[f] # Sentinel) => ret.st = "returned"

\* a starship: MGLT arrives as mglt, pilots and films are dropped, id is unset
C14_Witness ==
    /\ MapperCalled
    /\ call.kind = "starship"
    /\ ret.st = "returned"
    /\ "pilots" \in DOMAIN call.input /\ "pilots" \notin DOMAIN ret.value
    /\ "MGLT" \notin DOMAIN ret.value
    /\ ret.value["mglt"] = call.input["MGLT"]
    /\ "id" \notin DOMAIN ret.value

(***************************************************************************)
(* List requests and pagination.                                           *)
(***************************************************************************)
Listing == call.fn = "get_all"

Listed == Listing /\ ret.st = "returned"

Min(a, b) == IF a < b THEN a ELSE b
Max(a, b) == IF a > b THEN a ELSE b

RECURSIVE TrimLeft(_)
TrimLeft(s) == IF s # <<>> /\ Head(s) \in {" ", "\t"} THEN TrimLeft(Tail(s)) ELSE s

RECURSIVE TrimRight(_)
TrimRight(s) ==
    IF s # <<>> /\ s[Len(s)] \in {" ", "\t"} THEN TrimRight(SubSeq(s, 1, Len(s) - 1)) ELSE s

Trimmed(s) == TrimRight(TrimLeft(s))

\* the filter the request's queries are to use: none, or the trimmed one
FilterSent == {Trimmed(f) : f \in call.filter}

\* the count query's result, a null result taken as 0
CountResult == IF call.scalar_null THEN 0 ELSE Cardinality(Matching(call.rows, FilterSent))

EventsOf(q) == {i \in 1..Len(ret.events) : ret.events[i].q = q}

\* C15: with count result T, offset O and limit L: has_next = (O + L < T),
\* has_previous = (O > 0), next_offset = O + L when has_next and absent
\* otherwise, previous_offset = max(0, O - L) when has_previous and absent
\* otherwise and never negative; total, offset and limit are echoed.
C15_PageMetadata ==
    Listed =>
        LET T == CountResult
            O == call.offset
            L == call.limit
        IN  /\ ret.meta.has_next = (O + L < T)
            /\ ret.meta.has_previous = (O > 0)
            /\ ret.meta.next_offset = (IF O + L < T THEN {O + L} ELSE {})
            /\ ret.meta.previous_offset = (IF O > 0 THEN {Max(0, O - L)} ELSE {})
            /\ \A p \in ret.meta.previous_offset : p >= 0
            /\ ret.meta.total = T /\ ret.meta.offset = O /\ ret.meta.limit = L

\* a page at offset 1 with limit 3 over a null count: previous_offset is 0
C15_Witness ==
    /\ Listed
    /\ call.scalar_null /\ Len(call.rows) > 0
    /\ call.offset = 1 /\ call.limit = 3
    /\ ret.meta.total = 0
    /\ ret.meta.previous_offset = {0}
    /\ ret.meta.next_offset = {}

\* C16: a pagination call runs one count query and one page fetch, the fetch
\* with the requested offset and limit; the count comes before the fetch and
\* the serialization after it; no other fetch is issued.
C16_OneCountThenOnePageFetch ==
    Listing =>
        /\ Cardinality(EventsOf("count")) <= 1
        /\ Cardinality(EventsOf("fetch")) <= 1
        /\ \A i \in EventsOf("fetch") :
               /\ ret.events[i].skip = call.offset /\ ret.events[i].limit = call.limit
               /\ \E c \in EventsOf("count") : c < i
        /\ \A i \in EventsOf("serialize") : \E f \in EventsOf("fetch") : f < i
        /\ ret.st = "returned" =>
               /\ Cardinality(EventsOf("count")) = 1
               /\ Cardinality(EventsOf("fetch")) = 1
               /\ Cardinality(EventsOf("serialize")) = 1
               /\ Len(ret.events) = 3

\* a returned page at offset 2 with limit 3: count, fetch(2, 3), serialize
C16_Witness ==
    /\ Listed
    /\ call.offset = 2 /\ call.limit = 3
    /\ ret.events = <<Query("count", {}, 0, 0), Query("fetch", {}, 2, 3), Query("serialize", {}, 0, 0)>>

C18_FilterChecked ==
    (Listing /\ ret.st # "none") =>
        IF \E t \in FilterSent : Len(t) = 0 \/ Len(t) > 100
        THEN /\ ret.st = "raised"
             /\ ret.exc.kind = "BusinessValidationException"
             /\ ret.exc.status_code = 400
             /\ ret.exc.field = (IF call.domain = "films" THEN "title" ELSE "name")
             /\ ret.events = <<>>
        ELSE /\ ret.st # "raised"
             /\ ret.filter = FilterSent

\* GET /characters?name=%20%09 is refused for the field name with no query run
C18_Witness ==
    /\ Listing
    /\ call.domain = "characters"
    /\ call.filter = {<<" ", "\t">>}
    /\ ret.st = "raised"
    /\ ret.exc.field = "name" /\ ret.exc.status_code = 400
    /\ ret.events = <<>>

(***************************************************************************)
(* Error responses.                                                        *)
(***************************************************************************)
Dispatched == call.fn = "dispatch" /\ ret.st = "returned"

ErrorShape(content) ==
    /\ DOMAIN content = {"message", "details", "status_code", "error_code"}
    /\ content["message"].type = "string"
    /\ content["details"].type = "string"
    /\ content["status_code"].type = "int"
    /\ content["error_code"].type = "string"

\* C19: every error response, for a known exception kind and for the generic
\* conversion of an unknown exception alike, is a JSON object with exactly
\* the fields message (string), details (string), status_code (int) and
\* error_code (string).
C19_ErrorResponseShape ==
    Dispatched =>
        \A i \in 1..2 : call.run[i] # NoExc => ErrorShape(ret.response[i].content)

\* C20: when a request fails because of an exception that is not of a known
\* kind, the response body does not depend on that exception's text: two
\* runs differing only in the text get the same body.
C20_RawTextNeverInBody ==
    (Dispatched /\ call.site \in {"fetch", "decode", "map", "commit", "count"}) =>
        ret.response[1].content = ret.response[2].content

(***************************************************************************)
(* The session's life around one request.                                  *)
(***************************************************************************)
SessionOver == call.fn = "get_session" /\ ret.st \in {"returned", "raised"}

BodyRaised == call.body # NoExc

Mutating == call.fn = "mutate" /\ ret.st # "none"

LastCall == ret.calls[Len(ret.calls)]

\* C22: on every mutation path a persistence failure is followed first by a
\* rollback, and only then is the mapped error raised: ConflictException
\* for a uniqueness violation on create, DatabaseException otherwise; the
\* caller never receives the raw persistence exception.
C22_RollbackThenMappedError ==
    Mutating =>
        /\ (call.failing # "") => ret.st # "returned"
        /\ ret.st = "raised" =>
               /\ call.failing # ""
               /\ LastCall = "rollback"
               /\ Cardinality({i \in 1..Len(ret.calls) : ret.calls[i] = "rollback"}) = 1
               /\ ret.calls[Len(ret.calls) - 1] = call.failing
               /\ ret.exc.kind = IF call.path = "create_starship" /\ call.error.kind = "IntegrityError"
                                 THEN "ConflictException" ELSE "DatabaseException"
               /\ ret.exc # call.error
        /\ ret.st = "returned" => (call.failing = "" /\ \A i \in 1..Len(ret.calls) : ret.calls[i] # "rollback")

\* a create that hit a uniqueness violation at its commit
C22_Witness ==
    /\ Mutating
    /\ call.path = "create_starship"
    /\ call.error.kind = "IntegrityError"
    /\ ret.st = "raised"
    /\ ret.calls = <<"add", "commit", "rollback">>
    /\ ret.exc.kind = "ConflictException"

(***************************************************************************)
(* The health report.                                                      *)
(***************************************************************************)
HealthChecking == call.fn = "perform_health_check"

\* C23: the health check never raises: for every pair of probe outcomes it
\* ends by returning a report whose web layer is "ok", whose dependencies
\* are each "ok" or "error", never "unknown", the database "ok" exactly on a
\* successful probe and the external source "ok" exactly on a 200 answer,
\* and whose overall status is healthy exactly when both are "ok".
C23_HealthReport ==
    HealthChecking =>
        /\ ret.st \in {"none", "swapi", "report", "returned"}
        /\ ret.st = "returned" =>
               /\ ret.fastapi = "ok"
               /\ ret.postgres \in {"ok", "error"}
               /\ ret.swapi_external \in {"ok", "error"}
               /\ ret.postgres = "ok" <=> call.db = "ok"
               /\ ret.swapi_external = "ok" <=> (call.swapi.fault = "" /\ call.swapi.status = 200)
               /\ ret.status \in {"healthy", "unhealthy"}
               /\ ret.status = "healthy" <=> (ret.postgres = "ok" /\ ret.swapi_external = "ok")

\* a database that answers and an external source answering 503
C23_Witness ==
    /\ HealthChecking
    /\ ret.st = "returned"
    /\ call.db = "ok"
    /\ call.swapi = [fault |-> "", status |-> 503]
    /\ ret.status = "unhealthy"
    /\ ret.postgres = "ok"
    /\ ret.swapi_external = "error"

(***************************************************************************)
(* The application's lifespan.                                             *)
(***************************************************************************)
InLifespan == call.fn = "lifespan" /\ ret.st # "none"

LifespanOver == InLifespan /\ ret.st \in {"returned", "raised"}

\* control was handed to the application: both startup log calls returned
Yielded == call.startup_raises = 0

\* the sequence s begins the sequence t
IsPrefix(s, t) == Len(s) <= Len(t) /\ \A i \in 1..Len(s) : s[i] = t[i]

\* C24: over one lifespan the database manager's close is called exactly
\* once, and only after the application body has exited, normally or by
\* raising; if startup fails before the yield it is not called at all; the
\* log events occur in the order starting up, startup completed, shutting
\* down, closing database connections, shutdown completed.
C24_CloseOnceAfterBody ==
    InLifespan =>
        /\ ret.closes \in {0, 1}
        /\ ret.closes = 1 => (Yielded /\ ret.st \in {"closed", "returned", "raised"} /\ Len(ret.log) >= 4)
        /\ ret.st \in {"starting", "yielded", "finally", "shutting", "closing"} => ret.closes = 0
        /\ LifespanOver => (ret.closes = 1 <=> Yielded)
        /\ IsPrefix(ret.log, LifespanLog)
        /\ (LifespanOver /\ Yielded /\ ~call.close_raises) => ret.log = LifespanLog
        /\ (LifespanOver /\ (call.body # "" \/ ~Yielded \/ call.close_raises)) => ret.st = "raised"

\* the application raised, and the close came after it
C24_Witness ==
    /\ LifespanOver
    /\ call.body = "ValueError"
    /\ ret.st = "raised"
    /\ ret.exc = "ValueError"
    /\ ret.closes = 1
    /\ ret.log = LifespanLog

(***************************************************************************)
(* One filter per list request.                                            *)
(***************************************************************************)
\* C25: within one list request the count query and the page fetch are built
\* from the same filter: the trimmed filter when a valid one is supplied,
\* none when none is supplied; the request never counts with one filter and
\* fetches with another.
C25_CountAndFetchShareFilter ==
    Listing =>
        \A i, j \in 1..Len(ret.events) :
            (ret.events[i].q = "count" /\ ret.events[j].q = "fetch") =>
                /\ ret.events[i].filter = ret.events[j].filter
                /\ ret.events[i].filter = FilterSent
                /\ call.filter = {} => ret.events[j].filter = {}

\* a padded filter was sent: counted and fetched with its trimmed value
C25_Witness ==
    /\ Listed
    /\ call.filter = {<<"\t", "b", " ">>}
    /\ call.rows = <<<<"a">>, <<"b">>, <<"b">>>>
    /\ \E i, j \in 1..Len(ret.events) :
           /\ ret.events[i] = Query("count", {<<"b">>}, 0, 0)
           /\ ret.events[j].q = "fetch" /\ ret.events[j].filter = {<<"b">>}
    /\ ret.total = 2

(***************************************************************************)
(* Walking the pages.                                                      *)
(***************************************************************************)
Walked(towards) == call.fn = "walk" /\ call.towards = towards /\ ret.st = "done"

\* max(1, ceil(total / limit))
PagesNeeded(total, limit) == Max(1, (total + limit - 1) \div limit)

\* C26: on a store that does not change, following next_offset from offset
\* 0 with a fixed limit ends with has_next false after exactly
\* max(1, ceil(T/L)) requests, the pages being disjoint and together
\* covering all T items; following previous_offset from any offset strictly
\* decreases the offset and ends at offset 0 with has_previous false.
C26_WalkPartitionsTheItems ==
    /\ Walked("next") =>
           /\ ~ret.meta.has_next
           /\ Len(ret.pages) = PagesNeeded(call.total, call.limit)
           /\ \A i, j \in 1..Len(ret.pages) : i < j => Range(ret.pages[i]) \cap Range(ret.pages[j]) = {}
           /\ UNION {Range(ret.pages[i]) : i \in 1..Len(ret.pages)} = 1..call.total
    /\ Walked("previous") =>
           /\ ~ret.meta.has_previous
           /\ ret.offset = 0
           /\ \A i \in 1..(Len(ret.offsets) - 1) : ret.offsets[i + 1] < ret.offsets[i]

(***************************************************************************)
(* Nothing is staged before everything is mapped.                          *)
(***************************************************************************)
AllRecords == {data.films[i] : i \in 1..Len(data.films)}
                  \cup {data.people[i] : i \in 1..Len(data.people)}
                  \cup {data.starships[i] : i \in 1..Len(data.starships)}

\* the record cannot be mapped, or its url yields no id
Unmappable(rec) ==
    \/ "release_date" \in DOMAIN rec /\ rec.release_date # "1977-05-25"
    \/ ~HasId(rec.url)

Registered == session.new # {} \/ \E i \in 1..Len(session.calls) : session.calls[i] = "add"

FetchFailed == Parsed /\ ~res.ok

\* the first element of a decoded list that is not turned into a record, if any
Rejected ==
    {i \in 1..Len(ItemsFetched) :
        /\ ~ItemsFetched[i].obj \/ IsInvalidRecord(ItemsFetched[i])
        /\ \A k \in 1..(i - 1) : ItemsFetched[k].obj /\ ~IsInvalidRecord(ItemsFetched[k])}

SchemaViolation == \E i \in Rejected : IsInvalidRecord(ItemsFetched[i])

TwoRequests == call.fn = "populatedb" /\ pc # "idle"

\* what one request over the source data d commits to empty tables
CommittedBy(d) ==
    LET ss == MapStarships(d.starships)
        cs == MapCharacters(d.people)
    IN  Flushed(LinkFilms(MapFilms(d.films), d.films, cs, ss),
                LinkCharacters(cs, d.people, ss), ss, EmptyStore)

ThisCommitted == pc = "return" \/ outcome.state = "returned"
OtherCommitted == ret.st = "returned"
ThisFailedOnDatabase ==
    outcome.state = "raised" /\ outcome.exc.kind = "DatabaseException"
OtherFailedOnDatabase == ret.st = "raised" /\ ret.exc.kind = "DatabaseException"

SecondRequestFails ==
    /\ ~(ThisCommitted /\ OtherCommitted)
    /\ (ThisCommitted /\ ret.st # "none") =>
           OtherFailedOnDatabase /\ store = CommittedBy(data)
    /\ (OtherCommitted /\ pc = "done") =>
           ThisFailedOnDatabase /\ store = CommittedBy(data)

\* C29 as stated: of two populate requests over the same source data, run one after
\* the other or concurrently, at most one commits; the other fails with
\* DatabaseException and the tables stay as the first request committed them
C29_PopulateNotRerunnable == TwoRequests => SecondRequestFails

SourceHasRecords ==
    data.films # <<>> \/ data.people # <<>> \/ data.starships # <<>>

\* C29: of two populate requests over the same source data holding at least one
\* record, run one after the other or concurrently, at most one commits; the other
\* fails with DatabaseException and the tables stay as the first request committed them
C29_PopulateNotRerunnableOnRecords ==
    (TwoRequests /\ SourceHasRecords) => SecondRequestFails

\* the other request committed films with characters first, this one was refused
C29_Witness ==
    /\ TwoRequests /\ SourceHasRecords
    /\ OtherCommitted
    /\ pc = "done"
    /\ ThisFailedOnDatabase
    /\ outcome.exc.message.cause.exc = "IntegrityError"
    /\ store.character_films # {}


(***************************************************************************)
(* C30: the film collections after the link phase.                         *)
(***************************************************************************)
\* C30: after the link phase no film's character collection and no film's starship
\* collection holds the same entity more than once, whatever the film records list
C30_FilmCollectionsHoldNoEntityTwice ==
    Linked => \A f \in DOMAIN films :
                  /\ ~HasDuplicates(films[f].characters)
                  /\ ~HasDuplicates(films[f].starships)

====
